---------------------------- MODULE Spec2Model ----------------------------
(***************************************************************************)
(* A model of the text-storage core of kaudocore: the piece table (Piece,  *)
(* PieceDescriptor, Buffer), the rope (Chunk, Node, RopeIterator) and the  *)
(* encoding handler.  Every component has its own specification over the   *)
(* shared variables; the variables of the other components stay at their   *)
(* idle values.                                                            *)
(*                                                                         *)
(* usize values are kept as integers.  Where the code can wrap a usize     *)
(* (Node.length), a negative integer v stands for the wrapped value        *)
(* 2^64 + v.                                                               *)
(***************************************************************************)
EXTENDS Integers, Sequences, FiniteSets, Bags, TLC

VARIABLES
    pieces,         \* Buffer.pieces: the sequence of pieces
    total_length,   \* Buffer.total_length: the cached length
    bufRet,         \* the last Buffer call and what it returned
    pd,             \* the Piece / PieceDescriptor under test and the last results
    node,           \* the Node under test (a tree)
    nodeRet,        \* the last Node call and what it returned
    chunk,          \* the rope Chunk under test
    chunkRet,       \* the last Chunk call and what it returned
    tree,           \* the tree a RopeIterator walks
    iter,           \* the RopeIterator
    iterRet,        \* the last iterator call, its result, and what was yielded so far
    enc,            \* the EncodingHandler round trip under test
    le,             \* the LineEnding::detect call under test
    metrics,        \* the shared RopeMetrics: its atomic counters
    threads         \* the threads that record into the RopeMetrics

bufVars   == <<pieces, total_length, bufRet>>
pieceVars == <<pd>>
nodeVars  == <<node, nodeRet>>
chunkVars == <<chunk, chunkRet>>
iterVars  == <<tree, iter, iterRet>>
encVars   == <<enc>>
lineVars  == <<le>>
metricVars == <<metrics, threads>>
vars == <<pieces, total_length, bufRet, pd, node, nodeRet, chunk, chunkRet,
          tree, iter, iterRet, enc, le, metrics, threads>>

\* Option<T>: None, or Some(v).
None == [some |-> FALSE]
Some(v) == [some |-> TRUE, val |-> v]

Idle == "idle"
BufIdle   == pieces = <<>> /\ total_length = 0 /\ bufRet = Idle
PieceIdle == pd = Idle
NodeIdle  == node = Idle /\ nodeRet = Idle
ChunkIdle == chunk = Idle /\ chunkRet = Idle
IterIdle  == tree = Idle /\ iter = Idle /\ iterRet = Idle
EncIdle   == enc = Idle
LineIdle  == le = Idle
MetricIdle == metrics = Idle /\ threads = Idle

Min(a, b) == IF a <= b THEN a ELSE b
Max(a, b) == IF a >= b THEN a ELSE b

----------------------------------------------------------------------------
(* Piece (piece.rs)                                                        *)

\* Bounds of the piece table models.
MaxOff == 2        \* lengths of the pieces a Buffer holds: 0..MaxOff
MaxPieces == 3     \* pieces a Buffer holds
MaxExtend == 2     \* pieces one extend_pieces call appends
MaxPieceEnd == 4   \* byte offsets of the Piece under test: 0..MaxPieceEnd
MaxBufferId == 1   \* buffer ids: 0..MaxBufferId
MaxGlobal == 3     \* global_start of the descriptor under test: 0..MaxGlobal

Piece(buffer_id, start, end) == [buffer_id |-> buffer_id, start |-> start, end |-> end]

\* Range<usize>::len(): 0 for an inverted range.
PieceLen(p) == IF p.end > p.start THEN p.end - p.start ELSE 0

PieceContains(p, index) == p.start <= index /\ index < p.end

PieceCanMerge(p, other) ==
    /\ p.buffer_id = other.buffer_id
    /\ (p.end = other.start \/ other.end = p.start)

PieceMergeMaxStart(p, other) ==
    IF ~PieceCanMerge(p, other) THEN None
    ELSE Some(Piece(p.buffer_id, Max(p.start, other.start), Max(p.end, other.end)))

PieceMerge(p, other) ==
    IF ~PieceCanMerge(p, other) THEN None
    ELSE Some(Piece(p.buffer_id, Min(p.start, other.start), Max(p.end, other.end)))

\* split_at asserts index <= len(); the callers below keep to that.
PieceSplitAt(p, index) ==
    [left  |-> Piece(p.buffer_id, p.start, p.start + index),
     right |-> Piece(p.buffer_id, p.start + index, p.end)]

----------------------------------------------------------------------------
(* PieceDescriptor (descriptor.rs)                                         *)

Descriptor(piece, global_start) == [piece |-> piece, global_start |-> global_start]

DescLen(d) == PieceLen(d.piece)
GlobalEnd(d) == d.global_start + DescLen(d)

ContainsGlobal(d, index) == index >= d.global_start /\ index < GlobalEnd(d)

GlobalToLocalNoOffset(d, global_index) ==
    IF ContainsGlobal(d, global_index)
    THEN Some(global_index - d.global_start)
    ELSE None

GlobalToLocal(d, global_index) ==
    IF ContainsGlobal(d, global_index)
    THEN Some(d.piece.start + (global_index - d.global_start))
    ELSE None

LocalToGlobal(d, local_index) ==
    IF PieceContains(d.piece, local_index)
    THEN Some(d.global_start + (local_index - d.piece.start))
    ELSE None

IntersectsGlobalRange(d, range) ==
    ~(range.end <= d.global_start \/ range.start >= GlobalEnd(d))

DescSplitAtKeepsStart(d, global_index) ==
    IF ~ContainsGlobal(d, global_index) \/ DescLen(d) = 0 THEN None
    ELSE LET local_index == global_index - d.global_start
         IN  IF local_index = 0 \/ local_index = DescLen(d) THEN None
             ELSE LET lr == PieceSplitAt(d.piece, local_index)
                  IN  Some([left  |-> Descriptor(lr.left, d.global_start),
                            right |-> Descriptor(lr.right, d.global_start)])

\* Option<(Self, Self)>: Some([left, right]) or None.
DescSplitAt(d, global_index) ==
    IF ~ContainsGlobal(d, global_index) \/ DescLen(d) = 0 THEN None
    ELSE LET local_index == global_index - d.global_start
         IN  IF local_index = 0 \/ local_index = DescLen(d) THEN None
             ELSE LET lr == PieceSplitAt(d.piece, local_index)
                  IN  Some([left  |-> Descriptor(lr.left, d.global_start),
                            right |-> Descriptor(lr.right, global_index)])

\* Option<(Option<Self>, Self, Option<Self>)>: Some([left, middle, right]) or
\* None; a split_at that gives None ends the call with None (the ? operator).
DescSplitRange(d, range) ==
    IF range.start >= range.end \/ ~IntersectsGlobalRange(d, range) THEN None
    ELSE LET range_start == Max(range.start, d.global_start)
             range_end == Min(range.end, GlobalEnd(d))
             first == IF range_start > d.global_start
                      THEN DescSplitAt(d, range_start) ELSE None
             failed1 == range_start > d.global_start /\ ~first.some
             left == IF first.some THEN Some(first.val.left) ELSE None
             middle1 == IF first.some THEN first.val.right ELSE d
             second == IF range_end < GlobalEnd(middle1)
                       THEN DescSplitAt(middle1, range_end) ELSE None
             failed2 == range_end < GlobalEnd(middle1) /\ ~second.some
         IN  IF failed1 \/ failed2 THEN None
             ELSE Some([left   |-> left,
                        middle |-> IF second.some THEN second.val.left ELSE middle1,
                        right  |-> IF second.some THEN Some(second.val.right) ELSE None])

\* The Piece / PieceDescriptor under test: a descriptor drawn from a bounded
\* set, then one of the pure operations applied to it.
TestPieces ==
    { Piece(b, s, e) : b \in 0..MaxBufferId, s \in 0..MaxPieceEnd, e \in 0..MaxPieceEnd }

PieceInit ==
    /\ \E p \in TestPieces, g \in 0..MaxGlobal :
         pd = [d |-> Descriptor(p, g), op |-> "new"]
    /\ BufIdle /\ NodeIdle /\ ChunkIdle /\ IterIdle /\ EncIdle
    /\ LineIdle /\ MetricIdle

\* p.split_at(i) for a valid interior index, then l.merge(r).
PieceSplitMerge ==
    /\ pd.op = "new"
    /\ \E i \in 1..MaxPieceEnd :
         /\ i < PieceLen(pd.d.piece)
         /\ LET lr == PieceSplitAt(pd.d.piece, i)
            IN  pd' = [d |-> pd.d, op |-> "split_merge", index |-> i,
                       left |-> lr.left, right |-> lr.right,
                       merged |-> PieceMerge(lr.left, lr.right)]
    /\ UNCHANGED <<bufVars, nodeVars, chunkVars, iterVars, encVars, lineVars, metricVars>>

\* d.global_to_local(i), and local_to_global of the result when there is one.
DescRoundTrip ==
    /\ pd.op = "new"
    /\ \E i \in 0..(MaxGlobal + MaxPieceEnd + 1) :
         LET l == GlobalToLocal(pd.d, i)
         IN  pd' = [d |-> pd.d, op |-> "round_trip", index |-> i,
                    local |-> l,
                    global |-> IF l.some THEN LocalToGlobal(pd.d, l.val) ELSE None]
    /\ UNCHANGED <<bufVars, nodeVars, chunkVars, iterVars, encVars, lineVars, metricVars>>

\* d.split_range(s..e)
DoSplitRange ==
    /\ pd.op = "new"
    /\ \E s \in 0..(MaxGlobal + MaxPieceEnd + 1), e \in 0..(MaxGlobal + MaxPieceEnd + 1) :
         pd' = [d |-> pd.d, op |-> "split_range", range |-> [start |-> s, end |-> e],
                ret |-> DescSplitRange(pd.d, [start |-> s, end |-> e])]
    /\ UNCHANGED <<bufVars, nodeVars, chunkVars, iterVars, encVars, lineVars, metricVars>>

PieceNext == PieceSplitMerge \/ DescRoundTrip \/ DoSplitRange

SpecPiece == PieceInit /\ [][PieceNext]_vars

\* C7: a piece with start <= end that is split at an interior index i gives
\* l = [start, start+i) and r = [start+i, end), and l.merge(r) is Some(p).
PieceSplitMergeRoundTrip ==
    (pd.op = "split_merge" /\ pd.d.piece.start <= pd.d.piece.end) =>
        /\ pd.left = Piece(pd.d.piece.buffer_id, pd.d.piece.start, pd.d.piece.start + pd.index)
        /\ pd.right = Piece(pd.d.piece.buffer_id, pd.d.piece.start + pd.index, pd.d.piece.end)
        /\ pd.merged = Some(pd.d.piece)

\* A piece of three or more bytes that does not start at 0 was split and merged back.
PieceSplitMergeWitness ==
    /\ pd.op = "split_merge"
    /\ pd.d.piece.start > 0
    /\ PieceLen(pd.left) + PieceLen(pd.right) > 2
    /\ pd.merged = Some(pd.d.piece)

\* C8: a global index the descriptor contains maps to a local index that maps
\* back to it; an index outside the global range maps to None.
DescCoordinateRoundTrip ==
    pd.op = "round_trip" =>
        IF ContainsGlobal(pd.d, pd.index)
        THEN pd.local.some /\ pd.global = Some(pd.index)
        ELSE pd.local = None

DescCoordinateWitness ==
    /\ pd.op = "round_trip"
    /\ ContainsGlobal(pd.d, pd.index)
    /\ pd.index > pd.d.global_start
    /\ pd.d.piece.start > 0
    /\ pd.d.piece.start # pd.d.global_start
    /\ pd.global = Some(pd.index)

\* The part covers the global range [from, to) and maps every index in it to
\* the local index that d maps it to.
PartCovers(part, d, from, to) ==
    /\ part.global_start = from
    /\ GlobalEnd(part) = to
    /\ part.piece.buffer_id = d.piece.buffer_id
    /\ \A g \in from..(to - 1) :
          GlobalToLocal(part, g) = Some(d.piece.start + (g - d.global_start))

PartsLen(parts) ==
    PieceLen(parts.middle.piece)
    + (IF parts.left.some THEN PieceLen(parts.left.val.piece) ELSE 0)
    + (IF parts.right.some THEN PieceLen(parts.right.val.piece) ELSE 0)

\* C17: for a non-empty range R that intersects d's global range, split_range
\* gives (left, middle, right): middle covers the intersection, left is there
\* iff R.start > d.global_start and covers [d.global_start, R.start), right is
\* there iff R.end < d.global_end and covers [R.end, d.global_end), the lengths
\* of the parts sum to d.len(), and each part maps its global indices as d
\* does; for an empty R or one that does not intersect d it gives None.
SplitRangePartitions ==
    pd.op = "split_range" =>
        LET d == pd.d
            gs == d.global_start
            ge == d.global_start + PieceLen(d.piece)
            from == Max(pd.range.start, gs)
            to == Min(pd.range.end, ge)
        IN  IF pd.range.start < pd.range.end /\ from < to
            THEN /\ pd.ret.some
                 /\ PartCovers(pd.ret.val.middle, d, from, to)
                 /\ pd.ret.val.left.some <=> (pd.range.start > gs)
                 /\ pd.ret.val.left.some => PartCovers(pd.ret.val.left.val, d, gs, from)
                 /\ pd.ret.val.right.some <=> (pd.range.end < ge)
                 /\ pd.ret.val.right.some => PartCovers(pd.ret.val.right.val, d, to, ge)
                 /\ PartsLen(pd.ret.val) = PieceLen(d.piece)
            ELSE pd.ret = None

\* C17 as amended: split_range gives None exactly when R is empty, R.end <=
\* d.global_start or R.start >= d.global_end; otherwise it gives the parts as
\* described, which for a descriptor of length 0 that lies strictly inside R is
\* (None, d, None).
SplitRangeParts ==
    pd.op = "split_range" =>
        LET d == pd.d
            gs == d.global_start
            ge == d.global_start + PieceLen(d.piece)
            from == Max(pd.range.start, gs)
            to == Min(pd.range.end, ge)
        IN  IF pd.range.start < pd.range.end /\ pd.range.end > gs /\ pd.range.start < ge
            THEN /\ pd.ret.some
                 /\ PartCovers(pd.ret.val.middle, d, from, to)
                 /\ pd.ret.val.left.some <=> (pd.range.start > gs)
                 /\ pd.ret.val.left.some => PartCovers(pd.ret.val.left.val, d, gs, from)
                 /\ pd.ret.val.right.some <=> (pd.range.end < ge)
                 /\ pd.ret.val.right.some => PartCovers(pd.ret.val.right.val, d, to, ge)
                 /\ PartsLen(pd.ret.val) = PieceLen(d.piece)
                 /\ (PieceLen(d.piece) = 0) =>
                        pd.ret.val = [left |-> None, middle |-> d, right |-> None]
            ELSE pd.ret = None

\* A range strictly inside a descriptor whose piece does not start at its
\* global start: all three parts are there.
SplitRangeWitness ==
    /\ pd.op = "split_range"
    /\ pd.ret.some
    /\ pd.ret.val.left.some /\ pd.ret.val.right.some
    /\ PieceLen(pd.ret.val.middle.piece) > 1
    /\ pd.d.piece.start # pd.d.global_start

----------------------------------------------------------------------------
(* Buffer (buffer.rs)                                                      *)

\* The pieces a Buffer is given: of every length 0..MaxOff, and one whose
\* range is inverted (its len() is 0).
BufPieces == { Piece(0, 0, e) : e \in 0..MaxOff } \cup { Piece(0, MaxOff, 0) }

RECURSIVE SumLen(_)
SumLen(ps) == IF ps = <<>> THEN 0 ELSE PieceLen(Head(ps)) + SumLen(Tail(ps))

SeqsUpTo(S, n) == UNION { [1..k -> S] : k \in 0..n }

InsertAt(s, index, x) == SubSeq(s, 1, index) \o <<x>> \o SubSeq(s, index + 1, Len(s))
RemoveAt(s, index) == SubSeq(s, 1, index) \o SubSeq(s, index + 2, Len(s))

\* The state a Buffer call leaves: the pieces, the cached length, the result.
BufState(ps, tl, ret) == [pieces |-> ps, total_length |-> tl, ret |-> ret]

FromPieces(ps) == BufState(ps, SumLen(ps), "new")

AddPiece(ps, tl, piece) ==
    BufState(Append(ps, piece), tl + PieceLen(piece), "add_piece")

\* index is 0-based, as in the code.
InsertPiece(ps, tl, index, piece) ==
    IF index > Len(ps) THEN BufState(ps, tl, "insert_piece: Err")
    ELSE BufState(InsertAt(ps, index, piece), tl + PieceLen(piece), "insert_piece: Ok")

RECURSIVE ExtendPieces(_, _, _)
ExtendPieces(ps, tl, more) ==
    IF more = <<>> THEN BufState(ps, tl, "extend_pieces")
    ELSE ExtendPieces(Append(ps, Head(more)), tl + PieceLen(Head(more)), Tail(more))

Clear(ps, tl) == BufState(<<>>, 0, "clear")

RemovePieceKeepLength(ps, tl, index) ==
    IF index >= Len(ps) THEN BufState(ps, tl, "remove_piece: None")
    ELSE BufState(RemoveAt(ps, index), tl, "remove_piece: Some")

RemovePiece(ps, tl, index) ==
    IF index >= Len(ps) THEN BufState(ps, tl, "remove_piece: None")
    ELSE BufState(RemoveAt(ps, index), tl - PieceLen(ps[index + 1]), "remove_piece: Some")

SwapPieces(ps, tl, a, b) ==
    IF a >= Len(ps) \/ b >= Len(ps) THEN BufState(ps, tl, "swap_pieces: Err")
    ELSE BufState([ps EXCEPT ![a + 1] = ps[b + 1], ![b + 1] = ps[a + 1]], tl,
                  "swap_pieces: Ok")

TruncatePieces(ps, tl, len) ==
    IF len < Len(ps)
    THEN BufState(SubSeq(ps, 1, len), tl - SumLen(SubSeq(ps, len + 1, Len(ps))),
                  "truncate_pieces: cut")
    ELSE BufState(ps, tl, "truncate_pieces: kept")

BufSet(st) ==
    /\ pieces' = st.pieces
    /\ total_length' = st.total_length
    /\ bufRet' = st.ret
    /\ UNCHANGED <<pieceVars, nodeVars, chunkVars, iterVars, encVars, lineVars, metricVars>>

\* Buffer::new() is from_pieces of no pieces.
BufInit ==
    /\ \E ps \in SeqsUpTo(BufPieces, MaxExtend) :
         LET st == FromPieces(ps)
         IN  pieces = st.pieces /\ total_length = st.total_length /\ bufRet = st.ret
    /\ PieceIdle /\ NodeIdle /\ ChunkIdle /\ IterIdle /\ EncIdle
    /\ LineIdle /\ MetricIdle

BufAddPiece ==
    /\ Len(pieces) < MaxPieces
    /\ \E p \in BufPieces : BufSet(AddPiece(pieces, total_length, p))

BufInsertPiece ==
    /\ Len(pieces) < MaxPieces
    /\ \E p \in BufPieces, index \in 0..(MaxPieces + 1) :
         BufSet(InsertPiece(pieces, total_length, index, p))

BufExtendPieces ==
    \E more \in SeqsUpTo(BufPieces, MaxExtend) :
        /\ Len(pieces) + Len(more) <= MaxPieces
        /\ BufSet(ExtendPieces(pieces, total_length, more))

BufClear == BufSet(Clear(pieces, total_length))

BufRemovePiece ==
    \E index \in 0..(MaxPieces + 1) : BufSet(RemovePiece(pieces, total_length, index))

BufSwapPieces ==
    \E a \in 0..(MaxPieces + 1), b \in 0..(MaxPieces + 1) :
        BufSet(SwapPieces(pieces, total_length, a, b))

BufTruncatePieces ==
    \E len \in 0..(MaxPieces + 1) : BufSet(TruncatePieces(pieces, total_length, len))

BufNext ==
    \/ BufAddPiece
    \/ BufInsertPiece
    \/ BufExtendPieces
    \/ BufClear
    \/ BufRemovePiece
    \/ BufSwapPieces
    \/ BufTruncatePieces

SpecBuffer == BufInit /\ [][BufNext]_vars

\* C1: in every reachable Buffer state the cached total_length (what len()
\* returns) is the sum of len() over the pieces in the sequence.
BufferLengthInvariant == total_length = SumLen(pieces)

\* A remove_piece with an index out of bounds was refused on a buffer that
\* holds pieces of different lengths.
BufferLengthWitness ==
    /\ bufRet = "remove_piece: None"
    /\ Len(pieces) = MaxPieces
    /\ PieceLen(pieces[1]) # PieceLen(pieces[2])
    /\ total_length = SumLen(pieces)
    /\ total_length > MaxOff

----------------------------------------------------------------------------
(* Strings: a Rust String is its UTF-8 bytes; a char is its code point.    *)

\* char::encode_utf8 / str::as_bytes of one char.
Utf8OfChar(cp) ==
    IF cp < 128 THEN <<cp>>
    ELSE IF cp < 2048 THEN <<192 + (cp \div 64), 128 + (cp % 64)>>
    ELSE IF cp < 65536 THEN
        <<224 + (cp \div 4096), 128 + ((cp \div 64) % 64), 128 + (cp % 64)>>
    ELSE <<240 + (cp \div 262144), 128 + ((cp \div 4096) % 64),
           128 + ((cp \div 64) % 64), 128 + (cp % 64)>>

RECURSIVE Utf8OfChars(_)
Utf8OfChars(cs) == IF cs = <<>> THEN <<>> ELSE Utf8OfChar(Head(cs)) \o Utf8OfChars(Tail(cs))

\* char::len_utf8 of the char whose first byte is b.
Utf8LenOfLead(b) == IF b < 128 THEN 1 ELSE IF b < 224 THEN 2 ELSE IF b < 240 THEN 3 ELSE 4

IsContinuation(b) == b >= 128 /\ b < 192

\* The char that starts at byte offset idx (0-based) of a valid UTF-8 text.
CharAtByte(text, idx) ==
    LET b0 == text[idx + 1]
        n  == Utf8LenOfLead(b0)
        c(k) == text[idx + 1 + k] % 64
    IN  IF n = 1 THEN b0
        ELSE IF n = 2 THEN (b0 % 32) * 64 + c(1)
        ELSE IF n = 3 THEN (b0 % 16) * 4096 + c(1) * 64 + c(2)
        ELSE (b0 % 8) * 262144 + c(1) * 4096 + c(2) * 64 + c(3)

\* str::is_char_boundary.
IsCharBoundary(text, index) ==
    IF index = 0 THEN TRUE
    ELSE IF index >= Len(text) THEN index = Len(text)
    ELSE ~IsContinuation(text[index + 1])

\* &text[from..to], byte offsets.
Bytes(text, from, to) == SubSeq(text, from + 1, to)

----------------------------------------------------------------------------
(* Chunk (rope/chunk.rs)                                                   *)

NL == 10

\* text.match_indices('\n'): the byte offsets of the line breaks.
RECURSIVE MatchNewlines(_, _)
MatchNewlines(text, from) ==
    IF from >= Len(text) THEN <<>>
    ELSE IF text[from + 1] = NL THEN <<from>> \o MatchNewlines(text, from + 1)
    ELSE MatchNewlines(text, from + 1)

ChunkNew(text) == [text |-> text, line_endings |-> MatchNewlines(text, 0)]

ChunkLen(c) == Len(c.text)

ChunkSlice(c, start, end) ==
    IF start > end \/ end > ChunkLen(c) THEN None
    ELSE IF ~IsCharBoundary(c.text, start) \/ ~IsCharBoundary(c.text, end) THEN None
    ELSE Some(ChunkNew(Bytes(c.text, start, end)))

ChunkSplitAt(c, index) ==
    IF index > ChunkLen(c) \/ ~IsCharBoundary(c.text, index) THEN None
    ELSE Some([left  |-> ChunkNew(Bytes(c.text, 0, index)),
               right |-> ChunkNew(Bytes(c.text, index, ChunkLen(c)))])

ChunkReplaceRange(c, start, end, replacement) ==
    IF start > end \/ end > ChunkLen(c) THEN None
    ELSE IF ~IsCharBoundary(c.text, start) \/ ~IsCharBoundary(c.text, end) THEN None
    ELSE Some(ChunkNew(Bytes(c.text, 0, start) \o replacement
                       \o Bytes(c.text, end, ChunkLen(c))))

ChunkInsertStr(c, idx, string) ==
    IF idx > ChunkLen(c) \/ ~IsCharBoundary(c.text, idx) THEN None
    ELSE Some(ChunkNew(Bytes(c.text, 0, idx) \o string \o Bytes(c.text, idx, ChunkLen(c))))

ChunkInsertNoBoundaryCheck(c, idx, ch) ==
    IF idx > ChunkLen(c) THEN None
    ELSE Some(ChunkNew(Bytes(c.text, 0, idx) \o Utf8OfChar(ch)
                       \o Bytes(c.text, idx, ChunkLen(c))))

ChunkInsert(c, idx, ch) ==
    IF idx > ChunkLen(c) \/ ~IsCharBoundary(c.text, idx) THEN None
    ELSE Some(ChunkNew(Bytes(c.text, 0, idx) \o Utf8OfChar(ch)
                       \o Bytes(c.text, idx, ChunkLen(c))))

ChunkRemove(c, idx) ==
    IF idx >= ChunkLen(c) \/ ~IsCharBoundary(c.text, idx) THEN None
    ELSE LET removed_char == CharAtByte(c.text, idx)
             char_end == idx + Len(Utf8OfChar(removed_char))
         IN  Some([chunk |-> ChunkNew(Bytes(c.text, 0, idx)
                                      \o Bytes(c.text, char_end, ChunkLen(c))),
                   char  |-> removed_char])

\* Bounds of the Chunk model.
MaxChunkChars == 2     \* chars of the Chunk under test
MaxInsertChars == 1    \* chars of a replacement or inserted string

\* 'a', '\n', U+00E9 (2 bytes), U+20AC (3 bytes), U+1F600 (4 bytes).
ChunkChars == {97, NL, 233, 8364, 128512}

ChunkTexts(n) == { Utf8OfChars(cs) : cs \in SeqsUpTo(ChunkChars, n) }

\* Byte indices a caller may pass: every offset of the text and two beyond it.
ChunkIndices == 0..(Len(chunk.text) + 2)

ChunkInit ==
    /\ \E t \in ChunkTexts(MaxChunkChars) : chunk = ChunkNew(t)
    /\ chunkRet = [op |-> "new"]
    /\ BufIdle /\ PieceIdle /\ NodeIdle /\ IterIdle /\ EncIdle
    /\ LineIdle /\ MetricIdle

\* Every Chunk method takes &self: the call returns a value and the receiver stays.
ChunkCall(op, at, res) ==
    /\ chunkRet.op = "new"
    /\ chunkRet' = [op |-> op, at |-> at, res |-> res]
    /\ UNCHANGED <<chunk, bufVars, pieceVars, nodeVars, iterVars, encVars, lineVars, metricVars>>

DoSlice ==
    \E s \in ChunkIndices, e \in ChunkIndices :
        ChunkCall("slice", {s, e}, ChunkSlice(chunk, s, e))

DoSplitAt ==
    \E i \in ChunkIndices : ChunkCall("split_at", {i}, ChunkSplitAt(chunk, i))

DoReplaceRange ==
    \E s \in ChunkIndices, e \in ChunkIndices, r \in ChunkTexts(MaxInsertChars) :
        ChunkCall("replace_range", {s, e}, ChunkReplaceRange(chunk, s, e, r))

DoInsert ==
    \E i \in ChunkIndices, ch \in ChunkChars :
        ChunkCall("insert", {i}, ChunkInsert(chunk, i, ch))

DoInsertStr ==
    \E i \in ChunkIndices, r \in ChunkTexts(MaxInsertChars) :
        ChunkCall("insert_str", {i}, ChunkInsertStr(chunk, i, r))

DoRemove ==
    \E i \in ChunkIndices : ChunkCall("remove", {i}, ChunkRemove(chunk, i))

ChunkNext == DoSlice \/ DoSplitAt \/ DoReplaceRange \/ DoInsert \/ DoInsertStr \/ DoRemove

SpecChunk == ChunkInit /\ [][ChunkNext]_vars

\* Byte offset i lies inside a multi-byte character of the text (the byte there
\* is a continuation byte), read off the bytes themselves.
InsideChar(text, i) == i >= 1 /\ i < Len(text) /\ text[i + 1] >= 128 /\ text[i + 1] < 192

BadIndex(text, i) == InsideChar(text, i) \/ i > Len(text)

ChunkBadIndexGivesNone ==
    chunkRet.op # "new" =>
        ((\E i \in chunkRet.at : BadIndex(chunk.text, i)) => chunkRet.res = None)

----------------------------------------------------------------------------
(* EncodingHandler (content/encoding.rs)                                   *)

Ok(v) == [ok |-> TRUE, val |-> v]
Err(kind) == [ok |-> FALSE, err |-> kind]

Encodings == {"UTF8", "UTF16", "UTF16LE", "UTF16BE", "LATIN1", "WINDOWS1252", "ASCII"}

BomOf(encoding) ==
    CASE encoding = "UTF8"    -> <<239, 187, 191>>
      [] encoding = "UTF16LE" -> <<255, 254>>
      [] encoding = "UTF16BE" -> <<254, 255>>
      [] OTHER                -> <<>>

HandlerNew(encoding) == [encoding |-> encoding, with_bom |-> FALSE, bom_bytes |-> <<>>]
HandlerWithBom(h) == [h EXCEPT !.with_bom = TRUE, !.bom_bytes = BomOf(h.encoding)]

StartsWith(bytes, prefix) ==
    Len(bytes) >= Len(prefix) /\ SubSeq(bytes, 1, Len(prefix)) = prefix

SkipBom(bytes) ==
    IF StartsWith(bytes, <<239, 187, 191>>) THEN SubSeq(bytes, 4, Len(bytes))
    ELSE IF StartsWith(bytes, <<255, 254>>) THEN SubSeq(bytes, 3, Len(bytes))
    ELSE IF StartsWith(bytes, <<254, 255>>) THEN SubSeq(bytes, 3, Len(bytes))
    ELSE bytes

\* String::from_utf8: the chars of a well-formed UTF-8 byte sequence, or an
\* error (a bad lead byte, a missing or bad continuation, an overlong form, a
\* surrogate, a code point beyond U+10FFFF).
Utf8SeqLen(b0) ==
    IF b0 < 128 THEN 1
    ELSE IF b0 >= 194 /\ b0 <= 223 THEN 2
    ELSE IF b0 >= 224 /\ b0 <= 239 THEN 3
    ELSE IF b0 >= 240 /\ b0 <= 244 THEN 4
    ELSE 0

Utf8SecondOk(b0, b1) ==
    CASE b0 = 224 -> b1 >= 160 /\ b1 <= 191
      [] b0 = 237 -> b1 >= 128 /\ b1 <= 159
      [] b0 = 240 -> b1 >= 144 /\ b1 <= 191
      [] b0 = 244 -> b1 >= 128 /\ b1 <= 143
      [] OTHER    -> IsContinuation(b1)

RECURSIVE FromUtf8(_, _)
FromUtf8(bytes, acc) ==
    IF bytes = <<>> THEN Ok(acc)
    ELSE LET n == Utf8SeqLen(bytes[1])
         IN  IF n = 0 \/ Len(bytes) < n THEN Err("InvalidSequence")
             ELSE IF n >= 2 /\ ~Utf8SecondOk(bytes[1], bytes[2]) THEN Err("InvalidSequence")
             ELSE IF \E k \in 3..n : ~IsContinuation(bytes[k]) THEN Err("InvalidSequence")
             ELSE FromUtf8(SubSeq(bytes, n + 1, Len(bytes)),
                           Append(acc, CharAtByte(bytes, 0)))

\* str::encode_utf16 of one char.
Utf16OfChar(cp) ==
    IF cp < 65536 THEN <<cp>>
    ELSE <<55296 + ((cp - 65536) \div 1024), 56320 + ((cp - 65536) % 1024)>>

\* String::from_utf16: an unpaired surrogate is an error.
RECURSIVE FromUtf16(_, _)
FromUtf16(units, acc) ==
    IF units = <<>> THEN Ok(acc)
    ELSE LET u == units[1]
         IN  IF u < 55296 \/ u > 57343
             THEN FromUtf16(Tail(units), Append(acc, u))
             ELSE IF u <= 56319 /\ Len(units) >= 2 /\ units[2] >= 56320 /\ units[2] <= 57343
             THEN FromUtf16(SubSeq(units, 3, Len(units)),
                            Append(acc, 65536 + (u - 55296) * 1024 + (units[2] - 56320)))
             ELSE Err("InvalidSequence")

\* The 16-bit units of a byte sequence of even length.
RECURSIVE UnitsLE(_)
UnitsLE(bytes) ==
    IF Len(bytes) < 2 THEN <<>>
    ELSE <<bytes[1] + 256 * bytes[2]>> \o UnitsLE(SubSeq(bytes, 3, Len(bytes)))

RECURSIVE UnitsBE(_)
UnitsBE(bytes) ==
    IF Len(bytes) < 2 THEN <<>>
    ELSE <<256 * bytes[1] + bytes[2]>> \o UnitsBE(SubSeq(bytes, 3, Len(bytes)))

DecodeUtf16le(bytes) ==
    IF Len(bytes) % 2 # 0 THEN Err("InvalidSequence") ELSE FromUtf16(UnitsLE(bytes), <<>>)

DecodeUtf16be(bytes) ==
    IF Len(bytes) % 2 # 0 THEN Err("InvalidSequence") ELSE FromUtf16(UnitsBE(bytes), <<>>)

\* The match arms of decode_windows1252 / encode_windows1252, in their order:
\* <<byte, code point>>.  The source has an apostrophe (39) in the arms of 0x91
\* and 0x92 and a quotation mark (34) in those of 0x93 and 0x94.
Windows1252Arms ==
    << <<128, 8364>>, <<130, 8218>>, <<131, 402>>, <<132, 8222>>, <<133, 8230>>,
       <<134, 8224>>, <<135, 8225>>, <<136, 710>>, <<137, 8240>>, <<138, 352>>,
       <<139, 8249>>, <<140, 338>>, <<142, 381>>, <<145, 39>>, <<146, 39>>,
       <<147, 34>>, <<148, 34>>, <<149, 8226>>, <<150, 8211>>, <<151, 8212>>,
       <<152, 732>>, <<153, 8482>>, <<154, 353>>, <<155, 8250>>, <<156, 339>>,
       <<158, 382>>, <<159, 376>> >>

\* The first arm whose column col holds v, or 0 when no arm does.
FirstArm(col, v) ==
    LET hits == { i \in 1..Len(Windows1252Arms) : Windows1252Arms[i][col] = v }
    IN  IF hits = {} THEN 0 ELSE CHOOSE i \in hits : \A j \in hits : i <= j

DecodeWindows1252Byte(byte) ==
    LET i == FirstArm(1, byte) IN IF i = 0 THEN byte ELSE Windows1252Arms[i][2]

DecodeWindows1252(bytes) ==
    Ok([k \in 1..Len(bytes) |-> DecodeWindows1252Byte(bytes[k])])

EncodeWindows1252Char(ch) ==
    LET i == FirstArm(2, ch)
    IN  IF i # 0 THEN Windows1252Arms[i][1] ELSE IF ch <= 255 THEN ch ELSE -1

EncodeWindows1252(text) ==
    IF \E k \in 1..Len(text) : EncodeWindows1252Char(text[k]) = -1
    THEN Err("ConversionFailed")
    ELSE Ok([k \in 1..Len(text) |-> EncodeWindows1252Char(text[k])])

\* text.encode_utf16()
RECURSIVE EncodeUtf16(_)
EncodeUtf16(text) ==
    IF text = <<>> THEN <<>> ELSE Utf16OfChar(Head(text)) \o EncodeUtf16(Tail(text))

\* to_le_bytes / to_be_bytes of every unit.
RECURSIVE BytesLE(_)
BytesLE(units) ==
    IF units = <<>> THEN <<>>
    ELSE <<Head(units) % 256, Head(units) \div 256>> \o BytesLE(Tail(units))

RECURSIVE BytesBE(_)
BytesBE(units) ==
    IF units = <<>> THEN <<>>
    ELSE <<Head(units) \div 256, Head(units) % 256>> \o BytesBE(Tail(units))

Decode(h, bytes) ==
    LET data == SkipBom(bytes)
    IN  CASE h.encoding = "UTF8" -> FromUtf8(data, <<>>)
          [] h.encoding \in {"UTF16", "UTF16LE"} -> DecodeUtf16le(data)
          [] h.encoding = "UTF16BE" -> DecodeUtf16be(data)
          [] h.encoding = "LATIN1" -> Ok(data)
          [] h.encoding = "WINDOWS1252" -> DecodeWindows1252(data)
          [] h.encoding = "ASCII" ->
                IF \A k \in 1..Len(data) : data[k] < 128
                THEN Ok(data) ELSE Err("InvalidSequence")

Encode(h, text) ==
    LET bom == IF h.with_bom THEN h.bom_bytes ELSE <<>>
    IN  CASE h.encoding = "UTF8" -> Ok(bom \o Utf8OfChars(text))
          [] h.encoding \in {"UTF16", "UTF16LE"} ->
                Ok(bom \o BytesLE(EncodeUtf16(text)))
          [] h.encoding = "UTF16BE" ->
                Ok(bom \o BytesBE(EncodeUtf16(text)))
          [] h.encoding = "LATIN1" ->
                IF \A k \in 1..Len(text) : text[k] <= 255
                THEN Ok(bom \o text) ELSE Err("ConversionFailed")
          [] h.encoding = "WINDOWS1252" ->
                LET r == EncodeWindows1252(text)
                IN  IF r.ok THEN Ok(bom \o r.val) ELSE r
          [] h.encoding = "ASCII" ->
                IF \A k \in 1..Len(text) : text[k] < 128
                THEN Ok(bom \o text) ELSE Err("ConversionFailed")

\* Bound of the encoding model.
MaxTextLen == 2    \* chars of the text that is encoded

\* 'A', U+0080, U+00E9, U+00FE, U+00FF, U+20AC, U+FEFF, U+1F600.
EncChars == {65, 128, 233, 254, 255, 8364, 65279, 128512}

EncInit ==
    /\ \E text \in SeqsUpTo(EncChars, MaxTextLen), e \in Encodings, bom \in BOOLEAN :
         enc = [handler |-> IF bom THEN HandlerWithBom(HandlerNew(e)) ELSE HandlerNew(e),
                text |-> text, phase |-> "new"]
    /\ BufIdle /\ PieceIdle /\ NodeIdle /\ ChunkIdle /\ IterIdle
    /\ LineIdle /\ MetricIdle

EncEncode ==
    /\ enc.phase = "new"
    /\ enc' = [handler |-> enc.handler, text |-> enc.text, phase |-> "encoded",
               encoded |-> Encode(enc.handler, enc.text)]
    /\ UNCHANGED <<bufVars, pieceVars, nodeVars, chunkVars, iterVars, lineVars, metricVars>>

EncDecode ==
    /\ enc.phase = "encoded"
    /\ enc.encoded.ok
    /\ enc' = [handler |-> enc.handler, text |-> enc.text, phase |-> "decoded",
               encoded |-> enc.encoded,
               decoded |-> Decode(enc.handler, enc.encoded.val)]
    /\ UNCHANGED <<bufVars, pieceVars, nodeVars, chunkVars, iterVars, lineVars, metricVars>>

EncNext == EncEncode \/ EncDecode

SpecEnc == EncInit /\ [][EncNext]_vars

\* C10: for every encoding and every text that encode accepts,
\* decode(encode(text)) is Ok(text) with the same handler.
EncodeDecodeRoundTrip ==
    enc.phase = "decoded" => enc.decoded = Ok(enc.text)

----------------------------------------------------------------------------
(* The tree a RopeIterator walks.  iterator.rs reads it through NodeRef     *)
(* (borrow().len(), is_leaf(), get_chunk(), children) and Chunk::char_at,   *)
(* none of which node.rs or chunk.rs defines: they follow the description   *)
(* of the rope, a tree whose leaves hold the text.                          *)

Leaf(text) == [chunk |-> text, children |-> <<>>]
Branch(children) == [chunk |-> <<>>, children |-> children]

IsLeaf(n) == n.children = <<>>

\* The text of the tree: its leaf chunks, left to right.
RECURSIVE Doc(_)
Doc(n) ==
    IF IsLeaf(n) THEN n.chunk
    ELSE LET RECURSIVE Cat(_)
             Cat(k) == IF k > Len(n.children) THEN <<>>
                       ELSE Doc(n.children[k]) \o Cat(k + 1)
         IN  Cat(1)

\* NodeRef len(): the byte length of the text below the node.
NodeRefLen(n) == Len(Doc(n))

\* Chunk::char_at on an ASCII chunk: the char at the index, None beyond the end.
CharAt(text, index) == IF index < Len(text) THEN Some(text[index + 1]) ELSE None

RECURSIVE AllLeavesNonEmpty(_)
AllLeavesNonEmpty(n) ==
    IF IsLeaf(n) THEN n.chunk # <<>>
    ELSE \A k \in 1..Len(n.children) : AllLeavesNonEmpty(n.children[k])

----------------------------------------------------------------------------
(* RopeIterator (rope/iterator.rs)                                         *)

Frame(n, child_index) == [node |-> n, idx |-> child_index]
Top(stack) == stack[Len(stack)]
Pop(stack) == SubSeq(stack, 1, Len(stack) - 1)

RECURSIVE AdvanceToNextChunk(_)
AdvanceToNextChunk(it) ==
    IF it.stack = <<>>
    THEN [it EXCEPT !.current_chunk = None, !.current_index = 0, !.exhausted = TRUE]
    ELSE LET top == Top(it.stack)
             rest == Pop(it.stack)
         IN  IF IsLeaf(top.node)
             THEN [it EXCEPT !.stack = rest,
                             !.current_chunk = Some(top.node.chunk),
                             !.current_index = 0]
             ELSE IF top.idx < Len(top.node.children)
             THEN AdvanceToNextChunk(
                    [it EXCEPT !.stack = rest \o <<Frame(top.node, top.idx + 1),
                                                   Frame(top.node.children[top.idx + 1], 0)>>])
             ELSE AdvanceToNextChunk([it EXCEPT !.stack = rest])

\* saturating_sub
SatSub(a, b) == IF a >= b THEN a - b ELSE 0

RECURSIVE AdvanceToPrevChunk(_)
AdvanceToPrevChunk(it) ==
    IF it.reverse_stack = <<>>
    THEN [it EXCEPT !.current_chunk = None, !.current_index = 0, !.exhausted = TRUE]
    ELSE LET top == Top(it.reverse_stack)
             rest == Pop(it.reverse_stack)
         IN  IF IsLeaf(top.node)
             THEN [it EXCEPT !.reverse_stack = rest,
                             !.current_chunk = Some(top.node.chunk),
                             !.current_index = SatSub(Len(top.node.chunk), 1)]
             ELSE IF top.idx > 0
             THEN LET child == top.node.children[top.idx]
                      last_index == IF IsLeaf(child) THEN 0 ELSE Len(child.children)
                  IN  AdvanceToPrevChunk(
                        [it EXCEPT !.reverse_stack =
                            rest \o <<Frame(top.node, top.idx - 1), Frame(child, last_index)>>])
             ELSE AdvanceToPrevChunk([it EXCEPT !.reverse_stack = rest])

Reset(it) ==
    [it EXCEPT !.stack = <<>>, !.current_chunk = None, !.current_index = 0,
               !.traversed_length = 0, !.exhausted = FALSE]

\* The while loop of seek_to_position: [it, ret].
RECURSIVE SeekLoop(_, _)
SeekLoop(it, pos) ==
    IF it.traversed_length < pos /\ ~it.exhausted /\ it.current_chunk.some
    THEN LET chunk_len == Len(it.current_chunk.val)
             remaining_to_pos == pos - it.traversed_length
         IN  IF remaining_to_pos < chunk_len - it.current_index
             THEN [it  |-> [it EXCEPT !.current_index = @ + remaining_to_pos,
                                      !.traversed_length = @ + remaining_to_pos],
                   ret |-> TRUE]
             ELSE SeekLoop(AdvanceToNextChunk(
                             [it EXCEPT !.traversed_length =
                                            @ + (chunk_len - it.current_index)]), pos)
    ELSE [it |-> it, ret |-> it.traversed_length = pos]

SeekToPosition(it, pos) ==
    IF pos > it.total_length THEN [it |-> it, ret |-> FALSE]
    ELSE SeekLoop(Reset(it), pos)

IterNew(root, range) ==
    LET it0 == [stack |-> <<Frame(root, 0)>>,
                reverse_stack |-> <<Frame(root, 0)>>,
                current_chunk |-> None,
                current_index |-> 0,
                total_length |-> NodeRefLen(root),
                traversed_length |-> 0,
                range |-> range,
                is_forward |-> TRUE,
                exhausted |-> FALSE]
    IN  IF range.some THEN SeekToPosition(it0, range.val.start).it
        ELSE AdvanceToNextChunk(it0)

RemainingLength(it) ==
    IF it.range.some THEN SatSub(it.range.val.end, it.traversed_length)
    ELSE SatSub(it.total_length, it.traversed_length)

Position(it) == it.traversed_length

WithinRange(it) ==
    IF it.range.some
    THEN it.traversed_length >= it.range.val.start /\ it.traversed_length < it.range.val.end
    ELSE TRUE

\* The range check that ends advance_char.
RangeCheck(it) ==
    IF /\ it.range.some
       /\ \/ (it.is_forward /\ it.traversed_length >= it.range.val.end)
          \/ (~it.is_forward /\ it.traversed_length < it.range.val.start)
    THEN [it EXCEPT !.exhausted = TRUE]
    ELSE it

AdvanceCharOffByOne(it) ==
    IF it.exhausted THEN it
    ELSE IF ~it.current_chunk.some THEN RangeCheck(it)
    ELSE IF it.is_forward
    THEN LET moved == [it EXCEPT !.current_index = @ + 1, !.traversed_length = @ + 1]
         IN  RangeCheck(IF moved.current_index > Len(it.current_chunk.val)
                        THEN AdvanceToNextChunk(moved) ELSE moved)
    ELSE IF it.current_index = 0
    THEN RangeCheck(AdvanceToPrevChunk(it))
    ELSE RangeCheck([it EXCEPT !.current_index = @ - 1,
                               !.traversed_length = SatSub(@, 1)])

AdvanceChar(it) ==
    IF it.exhausted THEN it
    ELSE IF ~it.current_chunk.some THEN RangeCheck(it)
    ELSE IF it.is_forward
    THEN LET moved == [it EXCEPT !.current_index = @ + 1, !.traversed_length = @ + 1]
         IN  RangeCheck(IF moved.current_index >= Len(it.current_chunk.val)
                        THEN AdvanceToNextChunk(moved) ELSE moved)
    ELSE IF it.current_index = 0
    THEN RangeCheck(AdvanceToPrevChunk(it))
    ELSE RangeCheck([it EXCEPT !.current_index = @ - 1,
                               !.traversed_length = SatSub(@, 1)])

CurrentChar(it) ==
    IF it.exhausted \/ ~WithinRange(it) THEN None
    ELSE IF ~it.current_chunk.some THEN None
    ELSE CharAt(it.current_chunk.val, it.current_index)

\* Iterator::next: [it, ret].
IteratorNext(it) ==
    LET ch == CurrentChar(it)
    IN  IF ~ch.some THEN [it |-> it, ret |-> None]
        ELSE [it |-> AdvanceChar(it), ret |-> ch]

\* Bounds of the iterator model.
MaxLeafLen == 2    \* chars of a leaf chunk
MaxKids == 2       \* children of the root

\* 'a', 'b'
IterChars == {97, 98}

LeafNodes == { Leaf(t) : t \in SeqsUpTo(IterChars, MaxLeafLen) }

\* A single leaf, a root over leaves, and a root with a nested branch on
\* either side of a leaf.
IterTrees ==
    LeafNodes
    \cup { Branch(kids) : kids \in SeqsUpTo(LeafNodes, MaxKids) \ {<<>>} }
    \cup { Branch(<<Branch(<<x>>), y>>) : x \in LeafNodes, y \in LeafNodes }
    \cup { Branch(<<x, Branch(<<y, x>>)>>) : x \in LeafNodes, y \in LeafNodes }

Range(s, e) == [start |-> s, end |-> e]

IterRanges(root) ==
    {None} \cup { Some(Range(s, e)) : s \in 0..(NodeRefLen(root) + 1),
                                      e \in 0..(NodeRefLen(root) + 1) }

\* iterRet: the last call (op, arg, ret), the chars next() has returned since
\* the iterator was made or last sought (out), whether only next() was called
\* since it was made (fresh), and the position of a seek that returned true
\* right before the last call (sought).
IterInit ==
    /\ \E root \in IterTrees :
         /\ tree = root
         /\ \E r \in IterRanges(root) : iter = IterNew(root, r)
    /\ iterRet = [op |-> "new", arg |-> 0, ret |-> None, out |-> <<>>,
                  fresh |-> TRUE, sought |-> None]
    /\ BufIdle /\ PieceIdle /\ NodeIdle /\ ChunkIdle /\ EncIdle
    /\ LineIdle /\ MetricIdle

DoNext ==
    /\ LET r == IteratorNext(iter)
       IN  /\ iter' = r.it
           /\ iterRet' = [op |-> "next", arg |-> 0, ret |-> r.ret,
                          out |-> IF r.ret.some THEN Append(iterRet.out, r.ret.val)
                                  ELSE iterRet.out,
                          fresh |-> iterRet.fresh,
                          sought |-> IF iterRet.op = "seek" /\ iterRet.ret
                                     THEN Some(iterRet.arg) ELSE None]
    /\ UNCHANGED <<tree, bufVars, pieceVars, nodeVars, chunkVars, encVars, lineVars, metricVars>>

DoSeekToPosition ==
    /\ \E pos \in 0..(iter.total_length + 1) :
         LET r == SeekToPosition(iter, pos)
         IN  /\ iter' = r.it
             /\ iterRet' = [op |-> "seek", arg |-> pos, ret |-> r.ret, out |-> <<>>,
                            fresh |-> FALSE, sought |-> None]
    /\ UNCHANGED <<tree, bufVars, pieceVars, nodeVars, chunkVars, encVars, lineVars, metricVars>>

IterNext == DoNext \/ DoSeekToPosition

SpecIter == IterInit /\ [][IterNext]_vars

IsPrefix(s, t) == Len(s) <= Len(t) /\ s = SubSeq(t, 1, Len(s))

\* C3: over a tree of non-empty ASCII leaves, a new unrestricted iterator
\* returns from next() the chars of the leaves, left to right, each once, then
\* None; remaining_length() is the byte length of the text minus what was
\* returned (the whole length at first, 0 at the end).
UnrestrictedIterationYieldsDoc ==
    (~iter.range.some /\ iterRet.fresh /\ AllLeavesNonEmpty(tree)) =>
        /\ IsPrefix(iterRet.out, Doc(tree))
        /\ RemainingLength(iter) = Len(Doc(tree)) - Len(iterRet.out)
        /\ (iterRet.op = "next" /\ ~iterRet.ret.some) => iterRet.out = Doc(tree)
        /\ iterRet.out = Doc(tree) => ~IteratorNext(iter).ret.some

\* All of a text held by two leaves under a nested branch was returned, then None.
UnrestrictedIterationWitness ==
    /\ ~iter.range.some /\ iterRet.fresh /\ AllLeavesNonEmpty(tree)
    /\ iterRet.op = "next" /\ ~iterRet.ret.some
    /\ Len(tree.children) = 2 /\ ~IsLeaf(tree.children[1])
    /\ Len(iterRet.out) = 2 * MaxLeafLen
    /\ iterRet.out = Doc(tree)
    /\ RemainingLength(iter) = 0

ValidRange(it) ==
    /\ it.range.some
    /\ it.range.val.start < it.range.val.end
    /\ it.range.val.end <= it.total_length

\* C4: an iterator made with a range [s, e), 0 <= s < e <= total_length,
\* returns from next() the chars at byte offsets s .. e-1, in order, and None
\* after them.
RangeIterationYieldsRange ==
    (ValidRange(iter) /\ iterRet.fresh /\ AllLeavesNonEmpty(tree)) =>
        /\ IsPrefix(iterRet.out, SubSeq(Doc(tree), iter.range.val.start + 1, iter.range.val.end))
        /\ (iterRet.op = "next" /\ ~iterRet.ret.some) =>
              iterRet.out = SubSeq(Doc(tree), iter.range.val.start + 1, iter.range.val.end)

\* C5: seek_to_position(pos) returns true exactly when pos <= total_length;
\* after it returns true with pos < total_length, position() is pos and the
\* next() that follows returns the char at byte offset pos.
SeekReachesPosition ==
    AllLeavesNonEmpty(tree) =>
        /\ iterRet.op = "seek" =>
              /\ iterRet.ret = (iterRet.arg <= iter.total_length)
              /\ (iterRet.ret /\ iterRet.arg < iter.total_length) =>
                    Position(iter) = iterRet.arg
        /\ (iterRet.op = "next" /\ iterRet.sought.some
              /\ iterRet.sought.val < iter.total_length /\ ~iter.range.some) =>
              iterRet.ret = Some(Doc(tree)[iterRet.sought.val + 1])

----------------------------------------------------------------------------
(* Content validation (content/validation.rs)                              *)

\* char::is_control: the category Cc.
IsControl(c) == c <= 31 \/ (c >= 127 /\ c <= 159)

ValidateControlCharacters(chars) ==
    \A k \in 1..Len(chars) : ~(IsControl(chars[k]) /\ chars[k] \notin {10, 13, 9})

\* The regex \r\n|\r|\u{0085}|\u{2028}|\u{2029}|\n, match by match.
RECURSIVE ValidateLineEndings(_, _)
ValidateLineEndings(chars, expected) ==
    IF expected = "Unknown" \/ chars = <<>> THEN TRUE
    ELSE LET c == chars[1]
         IN  IF c = 13 /\ Len(chars) >= 2 /\ chars[2] = 10
             THEN expected = "CRLF"
                  /\ ValidateLineEndings(SubSeq(chars, 3, Len(chars)), expected)
             ELSE IF c \in {13, 133, 8232, 8233, 10}
             THEN expected = (CASE c = 13 -> "CR" [] c = 133 -> "NEL" [] c = 8232 -> "LS"
                                [] c = 8233 -> "PS" [] OTHER -> "LF")
                  /\ ValidateLineEndings(Tail(chars), expected)
             ELSE ValidateLineEndings(Tail(chars), expected)

ValidateContent(content, encoding, line_ending) ==
    LET decoded == Decode(HandlerNew(encoding), content)
    IN  /\ decoded.ok
        /\ ValidateControlCharacters(decoded.val)
        /\ ValidateLineEndings(decoded.val, line_ending)

----------------------------------------------------------------------------
(* Node (rope/node.rs)                                                     *)

NodeNew(content, encoding, line_ending) ==
    [content |-> content, encoding |-> encoding, line_ending |-> line_ending,
     children |-> <<>>, length |-> Len(content)]

RECURSIVE TotalLength(_)
TotalLength(n) ==
    LET RECURSIVE Sum(_)
        Sum(k) == IF k > Len(n.children) THEN 0
                  ELSE TotalLength(n.children[k]) + Sum(k + 1)
    IN  n.length + Sum(1)

ChildCount(n) == Len(n.children)

AddChild(n, child) ==
    [n EXCEPT !.length = @ + TotalLength(child), !.children = Append(@, child)]

InsertChild(n, index, child) ==
    IF index <= Len(n.children)
    THEN [n EXCEPT !.length = @ + TotalLength(child),
                   !.children = InsertAt(@, index, child)]
    ELSE n

\* [node, ret]
RemoveChild(n, index) ==
    IF index < Len(n.children)
    THEN LET child == n.children[index + 1]
         IN  [node |-> [n EXCEPT !.children = RemoveAt(@, index),
                                 !.length = @ - TotalLength(child)],
              ret  |-> Some(child)]
    ELSE [node |-> n, ret |-> None]

\* update_parent_length: (self.length as i64 + delta) as usize.
UpdateParentLength(n, delta) ==
    IF delta # 0 THEN [n EXCEPT !.length = @ + delta] ELSE n

\* set_content calls validate_content(&new_content, self.encoding); the
\* line ending it is checked against is the node's own.  [node, ok]
SetContent(n, new_content) ==
    IF ValidateContent(new_content, n.encoding, n.line_ending)
    THEN LET old_length == n.length
             new_length == Len(new_content)
         IN  [node |-> UpdateParentLength(
                          [n EXCEPT !.content = new_content, !.length = new_length],
                          new_length - old_length),
              ok   |-> TRUE]
    ELSE [node |-> n, ok |-> FALSE]

\* usize comparison a >= b, a negative integer standing for a wrapped value.
UGe(a, b) == IF b < 0 THEN (a < 0 /\ a >= b) ELSE (a < 0 \/ a >= b)

\* [node, ret, panic]: str::split_at panics off a char boundary or past the end.
Split(n, index) ==
    IF index = 0 \/ UGe(index, n.length)
    THEN [node |-> n, ret |-> None, panic |-> FALSE]
    ELSE IF ~IsCharBoundary(n.content, index)
    THEN [node |-> n, ret |-> None, panic |-> TRUE]
    ELSE LET left == Bytes(n.content, 0, index)
             right == Bytes(n.content, index, Len(n.content))
             set == SetContent(n, left)
         IN  IF set.ok
             THEN [node |-> set.node, ret |-> Some(NodeNew(right, n.encoding, n.line_ending)),
                   panic |-> FALSE]
             ELSE [node |-> n, ret |-> None, panic |-> FALSE]

RECURSIVE AddChildren(_, _)
AddChildren(n, kids) ==
    IF kids = <<>> THEN n ELSE AddChildren(AddChild(n, Head(kids)), Tail(kids))

MergeIgnoresLineEnding(n, other) ==
    IF n.encoding # other.encoding
    THEN [node |-> n, ok |-> FALSE]
    ELSE LET set == SetContent(n, n.content \o other.content)
         IN  IF ~set.ok THEN [node |-> n, ok |-> FALSE]
             ELSE [node |-> AddChildren(set.node, other.children), ok |-> TRUE]

\* [node, ok]
Merge(n, other) ==
    IF n.encoding # other.encoding \/ n.line_ending # other.line_ending
    THEN [node |-> n, ok |-> FALSE]
    ELSE LET set == SetContent(n, n.content \o other.content)
         IN  IF ~set.ok THEN [node |-> n, ok |-> FALSE]
             ELSE [node |-> AddChildren(set.node, other.children), ok |-> TRUE]

\* update_length
UpdateLength(n) == [n EXCEPT !.length = Len(n.content)]

RECURSIVE BalanceMidPlusOne(_)
BalanceMidPlusOne(n) ==
    IF Len(n.children) <= 2 THEN n
    ELSE LET kids == [k \in 1..Len(n.children) |-> BalanceMidPlusOne(n.children[k])]
         IN  IF Len(kids) > 4
             THEN LET mid == (Len(kids) \div 2) + 1
                      right_node == UpdateLength(
                          [NodeNew(<<>>, n.encoding, n.line_ending)
                              EXCEPT !.children = SubSeq(kids, mid + 1, Len(kids))])
                  IN  [UpdateLength(n) EXCEPT !.children =
                          Append(SubSeq(kids, 1, mid), right_node)]
             ELSE [n EXCEPT !.children = kids]

RECURSIVE Balance(_)
Balance(n) ==
    IF Len(n.children) <= 2 THEN n
    ELSE LET kids == [k \in 1..Len(n.children) |-> Balance(n.children[k])]
         IN  IF Len(kids) > 4
             THEN LET mid == Len(kids) \div 2
                      right_node == UpdateLength(
                          [NodeNew(<<>>, n.encoding, n.line_ending)
                              EXCEPT !.children = SubSeq(kids, mid + 1, Len(kids))])
                  IN  [UpdateLength(n) EXCEPT !.children =
                          Append(SubSeq(kids, 1, mid), right_node)]
             ELSE [n EXCEPT !.children = kids]

\* Bounds of the Node model.
MaxNodeChars == 2      \* chars of the content a Node starts with
MaxChildren == 2       \* children of the Node under test
MaxNodeBytes == 4      \* bytes of content a merge may build up
MaxNodeLength == 4     \* the cached length stays within -MaxNodeLength..MaxNodeLength
MaxAdded == 8          \* leaf children added before balance()

\* 'a', '\n', U+00E9 (2 bytes)
NodeChars == {97, NL, 233}

\* <<encoding, line_ending>>
NodeConfigs == { <<"UTF8", "LF">>, <<"UTF8", "CRLF">>, <<"ASCII", "LF">> }

NodeLeaves(n) ==
    { NodeNew(Utf8OfChars(cs), cfg[1], cfg[2]) :
        cs \in SeqsUpTo(NodeChars, n), cfg \in NodeConfigs }

\* The nodes given to add_child, insert_child and merge: leaves of each
\* configuration, and a node that has a child of its own.
NodeOperands ==
    { NodeNew(<<97>>, cfg[1], cfg[2]) : cfg \in NodeConfigs }
    \cup { NodeNew(<<>>, "UTF8", "LF"), NodeNew(Utf8OfChar(233), "UTF8", "LF"),
           AddChild(NodeNew(<<97>>, "UTF8", "LF"), NodeNew(<<97>>, "UTF8", "LF")) }

NodeInBounds(n) ==
    /\ Len(n.children) <= MaxChildren
    /\ Len(n.content) <= MaxNodeBytes
    /\ n.length >= -MaxNodeLength /\ n.length <= MaxNodeLength

NodeInit ==
    /\ node \in NodeLeaves(MaxNodeChars)
    /\ nodeRet = [op |-> "new"]
    /\ BufIdle /\ PieceIdle /\ ChunkIdle /\ IterIdle /\ EncIdle
    /\ LineIdle /\ MetricIdle

NodeSet(n, ret) ==
    /\ NodeInBounds(n)
    /\ node' = n
    /\ nodeRet' = ret
    /\ UNCHANGED <<bufVars, pieceVars, chunkVars, iterVars, encVars, lineVars, metricVars>>

NodeAddChild ==
    \E child \in NodeOperands : NodeSet(AddChild(node, child), [op |-> "add_child"])

NodeInsertChild ==
    \E child \in NodeOperands, index \in 0..(MaxChildren + 1) :
        NodeSet(InsertChild(node, index, child),
                [op |-> "insert_child", ok |-> index <= Len(node.children)])

NodeRemoveChild ==
    \E index \in 0..MaxChildren :
        LET r == RemoveChild(node, index)
        IN  NodeSet(r.node, [op |-> "remove_child", ret |-> r.ret])

\* A split that panics unwinds out of the call: the node stays as it was.
NodeSplit ==
    \E index \in 0..(MaxNodeBytes + 1) :
        LET r == Split(node, index)
        IN  NodeSet(r.node, [op |-> "split", ret |-> r.ret, panic |-> r.panic])

NodeMerge ==
    \E other \in NodeOperands :
        LET r == Merge(node, other)
        IN  NodeSet(r.node, [op |-> "merge", ok |-> r.ok])

NodeNext ==
    \/ NodeAddChild
    \/ NodeInsertChild
    \/ NodeRemoveChild
    \/ NodeSplit
    \/ NodeMerge

SpecNode == NodeInit /\ [][NodeNext]_vars

RECURSIVE SumTotalLength(_)
SumTotalLength(kids) ==
    IF kids = <<>> THEN 0 ELSE TotalLength(Head(kids)) + SumTotalLength(Tail(kids))

\* C2: in every reachable Node state total_length() is the byte length of the
\* node's own content plus the sum of total_length() over its children.
NodeLengthInvariant ==
    TotalLength(node) = Len(node.content) + SumTotalLength(node.children)

----------------------------------------------------------------------------
(* balance() on a node built with add_child                                *)

BalanceLeaves == { NodeNew(<<>>, "UTF8", "LF"), NodeNew(<<97>>, "UTF8", "LF") }

BalanceInit ==
    /\ node \in BalanceLeaves
    /\ nodeRet = [op |-> "new", added |-> 0]
    /\ BufIdle /\ PieceIdle /\ ChunkIdle /\ IterIdle /\ EncIdle
    /\ LineIdle /\ MetricIdle

BuildAddChild ==
    /\ nodeRet.op \in {"new", "add_child"}
    /\ nodeRet.added < MaxAdded
    /\ \E child \in BalanceLeaves : node' = AddChild(node, child)
    /\ nodeRet' = [op |-> "add_child", added |-> nodeRet.added + 1]
    /\ UNCHANGED <<bufVars, pieceVars, chunkVars, iterVars, encVars, lineVars, metricVars>>

BuildBalance ==
    /\ nodeRet.op \in {"new", "add_child"}
    /\ node' = Balance(node)
    /\ nodeRet' = [op |-> "balance", added |-> nodeRet.added]
    /\ UNCHANGED <<bufVars, pieceVars, chunkVars, iterVars, encVars, lineVars, metricVars>>

BalanceNext == BuildAddChild \/ BuildBalance

SpecBalance == BalanceInit /\ [][BalanceNext]_vars

\* C9 as claimed: after balance() on a node built by adding any number of leaf
\* children, child_count() is at most 4.
BalanceBoundsChildCount ==
    nodeRet.op = "balance" => ChildCount(node) <= 4

\* C9 as amended: after balance() on a node built by adding n leaf children,
\* child_count() is n when n <= 4 and n / 2 + 1 (integer division) when
\* n > 4, which is at most 4 exactly when n <= 7.
BalanceChildCount ==
    nodeRet.op = "balance" =>
        /\ ChildCount(node) = IF nodeRet.added <= 4 THEN nodeRet.added
                              ELSE (nodeRet.added \div 2) + 1
        /\ (nodeRet.added <= 7 => ChildCount(node) <= 4)

\* The authors' test: six leaves, then balance().
BalanceChildCountWitness ==
    /\ nodeRet.op = "balance"
    /\ nodeRet.added = 6
    /\ ChildCount(node) = 4
    /\ ChildCount(node.children[4]) = 3

----------------------------------------------------------------------------
(* LineEnding (content/line_ending.rs)                                     *)

\* The kinds detect counts, in the order of its array of (count, kind) pairs.
DetectKinds == <<"CRLF", "LF", "CR", "NEL", "LS", "PS">>

\* LineEnding::default(): CRLF on a Windows build, LF on any other.
LineEndingDefault(windows) == IF windows THEN "CRLF" ELSE "LF"

ZeroCounts == [k \in 1..Len(DetectKinds) |-> 0]

\* The while loop of detect over the chars: the counts, in the order of DetectKinds.
RECURSIVE DetectCounts(_, _)
DetectCounts(chars, counts) ==
    IF chars = <<>> THEN counts
    ELSE LET ch == Head(chars)
             rest == Tail(chars)
         IN  IF ch = 13
             THEN IF rest # <<>> /\ Head(rest) = NL
                  THEN DetectCounts(Tail(rest), [counts EXCEPT ![1] = @ + 1])
                  ELSE DetectCounts(rest, [counts EXCEPT ![3] = @ + 1])
             ELSE IF ch = NL THEN DetectCounts(rest, [counts EXCEPT ![2] = @ + 1])
             ELSE IF ch = 133 THEN DetectCounts(rest, [counts EXCEPT ![4] = @ + 1])
             ELSE IF ch = 8232 THEN DetectCounts(rest, [counts EXCEPT ![5] = @ + 1])
             ELSE IF ch = 8233 THEN DetectCounts(rest, [counts EXCEPT ![6] = @ + 1])
             ELSE DetectCounts(rest, counts)

\* Iterator::max_by_key: of several greatest elements, the last one.
MaxByKey(counts) ==
    CHOOSE i \in 1..Len(counts) :
        /\ \A j \in 1..Len(counts) : counts[j] <= counts[i]
        /\ \A j \in (i + 1)..Len(counts) : counts[j] < counts[i]

SumCounts(counts) ==
    counts[1] + counts[2] + counts[3] + counts[4] + counts[5] + counts[6]

Detect(chars, windows) ==
    LET counts == DetectCounts(chars, ZeroCounts)
    IN  IF SumCounts(counts) = 0 THEN Ok(LineEndingDefault(windows))
        ELSE LET max_count == MaxByKey(counts)
             IN  IF counts[max_count] = 0 THEN Ok(LineEndingDefault(windows))
                 ELSE Ok(DetectKinds[max_count])

\* Bound of the line ending model.
MaxDetectLen == 4     \* chars of the text given to detect

\* 'a', '\n', '\r', U+0085, U+2028, U+2029
DetectChars == {97, NL, 13, 133, 8232, 8233}

\* The build (Windows or not) is fixed before the call.
LineInit ==
    /\ \E text \in SeqsUpTo(DetectChars, MaxDetectLen), windows \in BOOLEAN :
         le = [text |-> text, windows |-> windows, op |-> "new"]
    /\ BufIdle /\ PieceIdle /\ NodeIdle /\ ChunkIdle /\ IterIdle /\ EncIdle
    /\ MetricIdle

DoDetect ==
    /\ le.op = "new"
    /\ le' = [text |-> le.text, windows |-> le.windows, op |-> "detect",
              ret |-> Detect(le.text, le.windows)]
    /\ UNCHANGED <<bufVars, pieceVars, nodeVars, chunkVars, iterVars, encVars, metricVars>>

LineNext == DoDetect

SpecLine == LineInit /\ [][LineNext]_vars

\* The terminators of a text, counted from the text itself: a '\r' with a
\* '\n' right after it is one CRLF, and that '\n' is not a LF.
CountOf(text, kind) ==
    LET At(k) == text[k]
        IsCrLf(k) == At(k) = 13 /\ k < Len(text) /\ At(k + 1) = NL
    IN  Cardinality({ k \in 1..Len(text) :
            CASE kind = "CRLF" -> IsCrLf(k)
              [] kind = "LF"   -> At(k) = NL /\ ~(k > 1 /\ At(k - 1) = 13)
              [] kind = "CR"   -> At(k) = 13 /\ ~IsCrLf(k)
              [] kind = "NEL"  -> At(k) = 133
              [] kind = "LS"   -> At(k) = 8232
              [] kind = "PS"   -> At(k) = 8233 })

KindSet == { DetectKinds[i] : i \in 1..Len(DetectKinds) }

\* C11: detect returns the kind whose count is strictly the greatest, and the
\* platform default when two or more kinds tie for the greatest count or the
\* text has no terminator.
DetectMajorityOrDefault ==
    le.op = "detect" =>
        LET winners == { k \in KindSet :
                           \A o \in KindSet \ {k} : CountOf(le.text, k) > CountOf(le.text, o) }
        IN  le.ret = IF winners = {} THEN Ok(LineEndingDefault(le.windows))
                     ELSE Ok(CHOOSE k \in winners : TRUE)

----------------------------------------------------------------------------
(* RopeIterator: the calls besides next() and seek_to_position             *)

SetForward(it) == [it EXCEPT !.is_forward = TRUE]

SetBackwardClearsExhausted(it) == [it EXCEPT !.is_forward = FALSE, !.exhausted = FALSE]

SetBackward(it) == [it EXCEPT !.is_forward = FALSE]

Peek(it) == CurrentChar(it)

\* DoubleEndedIterator::next_back: [it, ret].
NextBack(it) ==
    IF it.exhausted THEN [it |-> it, ret |-> None]
    ELSE LET back == SetBackward(it)
             ch == CurrentChar(back)
         IN  IF ~ch.some THEN [it |-> back, ret |-> None]
             ELSE [it |-> AdvanceChar(back), ret |-> ch]

\* skip_while with a predicate that holds for the chars in accept: [it, ret].
RECURSIVE SkipWhile(_, _, _)
SkipWhile(it, accept, skipped) ==
    LET ch == CurrentChar(it)
    IN  IF ch.some /\ ch.val \in accept
        THEN SkipWhile(AdvanceChar(it), accept, skipped + 1)
        ELSE [it |-> it, ret |-> skipped]

\* take_while with a predicate that holds for the chars in accept: [it, ret].
RECURSIVE TakeWhile(_, _, _)
TakeWhile(it, accept, result) ==
    LET ch == CurrentChar(it)
    IN  IF ch.some /\ ch.val \in accept
        THEN TakeWhile(AdvanceChar(it), accept, Append(result, ch.val))
        ELSE [it |-> it, ret |-> result]

\* Bound of the model of these calls.
MaxWalkLeafLen == 1    \* chars of a leaf chunk

WalkLeaves == { Leaf(t) : t \in SeqsUpTo(IterChars, MaxWalkLeafLen) }

\* A single leaf, a root over one or two leaves, and a root with a nested
\* branch on either side of a leaf.
WalkTrees ==
    WalkLeaves
    \cup { Branch(<<x>>) : x \in WalkLeaves }
    \cup { Branch(<<x, y>>) : x \in WalkLeaves, y \in WalkLeaves }
    \cup { Branch(<<Branch(<<x>>), y>>) : x \in WalkLeaves, y \in WalkLeaves }
    \cup { Branch(<<x, Branch(<<y, x>>)>>) : x \in WalkLeaves, y \in WalkLeaves }

\* iterRet: the last call, its result, and the exhausted flag before the call.
WalkInit ==
    /\ \E root \in WalkTrees :
         /\ tree = root
         /\ \E r \in IterRanges(root) : iter = IterNew(root, r)
    /\ iterRet = [op |-> "new", ret |-> None, exh |-> FALSE]
    /\ BufIdle /\ PieceIdle /\ NodeIdle /\ ChunkIdle /\ EncIdle
    /\ LineIdle /\ MetricIdle

WalkCall(op, it, ret) ==
    /\ iter' = it
    /\ iterRet' = [op |-> op, ret |-> ret, exh |-> iter.exhausted]
    /\ UNCHANGED <<tree, bufVars, pieceVars, nodeVars, chunkVars, encVars, lineVars, metricVars>>

WalkNext == LET r == IteratorNext(iter) IN WalkCall("next", r.it, r.ret)

WalkNextBack == LET r == NextBack(iter) IN WalkCall("next_back", r.it, r.ret)

WalkPeek == WalkCall("peek", iter, Peek(iter))

WalkSkipWhile ==
    \E accept \in SUBSET IterChars :
        LET r == SkipWhile(iter, accept, 0) IN WalkCall("skip_while", r.it, r.ret)

WalkTakeWhile ==
    \E accept \in SUBSET IterChars :
        LET r == TakeWhile(iter, accept, <<>>) IN WalkCall("take_while", r.it, r.ret)

WalkSetForward == WalkCall("set_forward", SetForward(iter), None)

WalkSetBackward == WalkCall("set_backward", SetBackward(iter), None)

WalkSeekToPosition ==
    \E pos \in 0..(iter.total_length + 1) :
        LET r == SeekToPosition(iter, pos) IN WalkCall("seek", r.it, r.ret)

WalkStep ==
    \/ WalkNext
    \/ WalkNextBack
    \/ WalkPeek
    \/ WalkSkipWhile
    \/ WalkTakeWhile
    \/ WalkSetForward
    \/ WalkSetBackward
    \/ WalkSeekToPosition

SpecWalk == WalkInit /\ [][WalkStep]_vars

\* The call that was just made returned nothing.
NothingReturned ==
    CASE iterRet.op \in {"next", "next_back", "peek"} -> iterRet.ret = None
      [] iterRet.op = "skip_while" -> iterRet.ret = 0
      [] iterRet.op = "take_while" -> iterRet.ret = <<>>
      [] OTHER -> TRUE

\* C12: a call other than seek_to_position made on an exhausted iterator
\* returns nothing (None, 0 skipped, the empty string) and leaves the
\* exhausted flag set, whatever the direction was set to in between.
ExhaustionIsSticky ==
    (iterRet.exh /\ iterRet.op # "seek") => (iter.exhausted /\ NothingReturned)

\* An iterator that returned its whole text was turned backward and asked again.
ExhaustionWitness ==
    /\ iterRet.exh /\ iterRet.op = "next_back"
    /\ ~iter.range.some
    /\ Len(Doc(tree)) > 1
    /\ iter.traversed_length = iter.total_length
    /\ ~iter.is_forward
    /\ iter.exhausted /\ iterRet.ret = None

----------------------------------------------------------------------------
(* Node::find_node                                                         *)

\* find_node: the node found, named by its path from the receiver (the
\* 1-based child positions, <<>> for the receiver itself), or None.
RECURSIVE FindNode(_, _, _)
FindNode(n, index, path) ==
    IF index >= TotalLength(n) THEN None
    ELSE IF index < n.length THEN Some(path)
    ELSE LET RECURSIVE Walk(_, _)
             Walk(k, current_index) ==
                 IF k > Len(n.children) THEN None
                 ELSE LET child_length == TotalLength(n.children[k])
                      IN  IF index < current_index + child_length
                          THEN FindNode(n.children[k], index - current_index,
                                        Append(path, k))
                          ELSE Walk(k + 1, current_index + child_length)
         IN  Walk(1, n.length)

\* Bound of the find_node model.
MaxFindLen == 2    \* bytes of the content of each node

FindLeaves == { NodeNew(c, "UTF8", "LF") : c \in SeqsUpTo({97}, MaxFindLen) }

\* A leaf, a node with one or two children, and a node whose child has a child.
FindTrees ==
    FindLeaves
    \cup { AddChild(p, c) : p \in FindLeaves, c \in FindLeaves }
    \cup { AddChild(AddChild(p, c), d) : p \in FindLeaves, c \in FindLeaves, d \in FindLeaves }
    \cup { AddChild(p, AddChild(c, d)) : p \in FindLeaves, c \in FindLeaves, d \in FindLeaves }

FindInit ==
    /\ node \in FindTrees
    /\ nodeRet = [op |-> "new"]
    /\ BufIdle /\ PieceIdle /\ ChunkIdle /\ IterIdle /\ EncIdle
    /\ LineIdle /\ MetricIdle

DoFindNode ==
    /\ nodeRet.op = "new"
    /\ \E index \in 0..(TotalLength(node) + 1) :
         nodeRet' = [op |-> "find_node", index |-> index, ret |-> FindNode(node, index, <<>>)]
    /\ UNCHANGED <<node, bufVars, pieceVars, chunkVars, iterVars, encVars, lineVars, metricVars>>

FindNext == DoFindNode

SpecFind == FindInit /\ [][FindNext]_vars

\* The bytes of the document below a node: its own content, then its
\* children's, in order.
RECURSIVE DocLen(_)
DocLen(n) ==
    LET RECURSIVE Sum(_)
        Sum(k) == IF k > Len(n.children) THEN 0 ELSE DocLen(n.children[k]) + Sum(k + 1)
    IN  Len(n.content) + Sum(1)

\* The path of the node whose own content holds the byte at document offset
\* index, for index < DocLen(n).
RECURSIVE Holder(_, _, _)
Holder(n, index, path) ==
    IF index < Len(n.content) THEN path
    ELSE LET RECURSIVE Walk(_, _)
             Walk(k, before) ==
                 IF index < before + DocLen(n.children[k])
                 THEN Holder(n.children[k], index - before, Append(path, k))
                 ELSE Walk(k + 1, before + DocLen(n.children[k]))
         IN  Walk(1, Len(n.content))

\* C13: find_node(index) is None exactly when index >= total_length(), and
\* otherwise the node whose own content holds the byte at document offset
\* index (own content first, then the children in order).
FindNodeHoldsIndex ==
    nodeRet.op = "find_node" =>
        /\ (nodeRet.ret = None) <=> (nodeRet.index >= TotalLength(node))
        /\ nodeRet.ret # None =>
              /\ nodeRet.index < DocLen(node)
              /\ nodeRet.ret = Some(Holder(node, nodeRet.index, <<>>))

----------------------------------------------------------------------------
(* Node::split, call by call                                               *)

\* Bound of the split model.
MaxSplitChars == 3     \* chars of the content of the node that is split

\* 'a', U+00E9 (2 bytes)
SplitChars == {97, 233}

SplitLeaves == { NodeNew(Utf8OfChars(cs), "UTF8", "LF") : cs \in SeqsUpTo(SplitChars, MaxSplitChars) }

SplitInit ==
    /\ node \in SplitLeaves
    /\ nodeRet = [op |-> "new"]
    /\ BufIdle /\ PieceIdle /\ ChunkIdle /\ IterIdle /\ EncIdle
    /\ LineIdle /\ MetricIdle

\* add_child of a one-byte leaf, to a node that has no child yet.
SplitAddChild ==
    /\ node.children = <<>>
    /\ node' = AddChild(node, NodeNew(<<97>>, "UTF8", "LF"))
    /\ nodeRet' = [op |-> "add_child"]
    /\ UNCHANGED <<bufVars, pieceVars, chunkVars, iterVars, encVars, lineVars, metricVars>>

\* split(index); nodeRet keeps the index and the node as it was before the
\* call.  A split that panics unwinds out of the call: the node stays as it was.
DoSplit ==
    /\ \E index \in 0..(Len(node.content) + 1) :
         LET r == Split(node, index)
         IN  /\ node' = r.node
             /\ nodeRet' = [op |-> "split", index |-> index, before |-> node,
                            ret |-> r.ret, panic |-> r.panic]
    /\ UNCHANGED <<bufVars, pieceVars, chunkVars, iterVars, encVars, lineVars, metricVars>>

SplitNext == SplitAddChild \/ DoSplit

SpecSplit == SplitInit /\ [][SplitNext]_vars

\* C14: split(index) with index on a UTF-8 boundary and 0 < index < byte
\* length of the content c returns a new childless node of the same encoding
\* and line ending with content c[index..], and leaves c[..index] in self with
\* self's children unchanged.
SplitDividesContent ==
    (/\ nodeRet.op = "split"
     /\ nodeRet.index > 0 /\ nodeRet.index < Len(nodeRet.before.content)
     /\ ~InsideChar(nodeRet.before.content, nodeRet.index)) =>
        LET c == nodeRet.before.content
        IN  /\ ~nodeRet.panic
            /\ nodeRet.ret = Some([content |-> SubSeq(c, nodeRet.index + 1, Len(c)),
                                   encoding |-> nodeRet.before.encoding,
                                   line_ending |-> nodeRet.before.line_ending,
                                   children |-> <<>>,
                                   length |-> Len(c) - nodeRet.index])
            /\ node.content = SubSeq(c, 1, nodeRet.index)
            /\ node.children = nodeRet.before.children

\* C15: split(index) with index = 0, index >= byte length of the content, or
\* index inside a multi-byte character returns None without aborting and
\* leaves the node's content, length and children as they were.
SplitRejectsBadIndex ==
    (/\ nodeRet.op = "split"
     /\ \/ nodeRet.index = 0
        \/ nodeRet.index >= Len(nodeRet.before.content)
        \/ InsideChar(nodeRet.before.content, nodeRet.index)) =>
        /\ ~nodeRet.panic
        /\ nodeRet.ret = None
        /\ node.content = nodeRet.before.content
        /\ node.length = nodeRet.before.length
        /\ node.children = nodeRet.before.children

----------------------------------------------------------------------------
(* Rejected mutations of a Buffer or a Node, call by call                  *)

AppendContent(n, additional_content) == SetContent(n, n.content \o additional_content)

\* The contents of a record that holds no call.
NoCall == [op |-> "none"]

\* Bounds of the model of rejected mutations.
MaxRejChars == 1      \* chars of a content given to a Node
MaxRejKids == 1       \* children of the Node under test
MaxRejBytes == 2      \* bytes of content an append or merge may build up
MaxRejLength == 3     \* the cached length stays within -MaxRejLength..MaxRejLength

\* 'a', U+0001 (a control character), '\n', U+00E9 (not ASCII)
RejChars == {97, 1, NL, 233}

RejTexts == { Utf8OfChars(cs) : cs \in SeqsUpTo(RejChars, MaxRejChars) }

\* The nodes given to insert_child and merge.
RejOperands ==
    { NodeNew(<<97>>, cfg[1], cfg[2]) : cfg \in NodeConfigs }
    \cup { NodeNew(<<1>>, "UTF8", "LF"),
           AddChild(NodeNew(<<97>>, "UTF8", "LF"), NodeNew(<<97>>, "UTF8", "LF")) }

\* The receiver under test is a Buffer, or it is a Node.
RejInit ==
    /\ \/ /\ \E ps \in SeqsUpTo(BufPieces, MaxExtend) :
               LET st == FromPieces(ps)
               IN  pieces = st.pieces /\ total_length = st.total_length
          /\ bufRet = [op |-> "new"]
          /\ node = NodeNew(<<>>, "UTF8", "LF") /\ nodeRet = NoCall
       \/ /\ pieces = <<>> /\ total_length = 0 /\ bufRet = NoCall
          /\ \E cfg \in NodeConfigs : node = NodeNew(<<97>>, cfg[1], cfg[2])
          /\ nodeRet = [op |-> "new"]
    /\ PieceIdle /\ ChunkIdle /\ IterIdle /\ EncIdle /\ LineIdle /\ MetricIdle

\* A Buffer call: bufRet keeps the call, its result and the Buffer before it.
RejBufCall(op, index, st) ==
    /\ nodeRet = NoCall
    /\ Len(st.pieces) <= MaxPieces
    /\ pieces' = st.pieces
    /\ total_length' = st.total_length
    /\ bufRet' = [op |-> op, index |-> index, ret |-> st.ret,
                  before |-> [pieces |-> pieces, total_length |-> total_length]]
    /\ UNCHANGED <<pieceVars, nodeVars, chunkVars, iterVars, encVars, lineVars, metricVars>>

RejInsertPiece ==
    \E p \in BufPieces, index \in 0..(MaxPieces + 1) :
        RejBufCall("insert_piece", {index}, InsertPiece(pieces, total_length, index, p))

RejRemovePiece ==
    \E index \in 0..(MaxPieces + 1) :
        RejBufCall("remove_piece", {index}, RemovePiece(pieces, total_length, index))

RejSwapPieces ==
    \E a \in 0..(MaxPieces + 1), b \in 0..(MaxPieces + 1) :
        RejBufCall("swap_pieces", {a, b}, SwapPieces(pieces, total_length, a, b))

\* A Node call: nodeRet keeps the call, whether it succeeded and the Node before it.
RejNodeCall(op, arg, n, ok) ==
    /\ bufRet = NoCall
    /\ Len(n.children) <= MaxRejKids
    /\ Len(n.content) <= MaxRejBytes
    /\ n.length >= -MaxRejLength /\ n.length <= MaxRejLength
    /\ node' = n
    /\ nodeRet' = [op |-> op, arg |-> arg, ok |-> ok, before |-> node]
    /\ UNCHANGED <<bufVars, pieceVars, chunkVars, iterVars, encVars, lineVars, metricVars>>

\* insert_child returns nothing; ok tells whether the index was accepted.
RejInsertChild ==
    \E child \in RejOperands, index \in 0..(MaxRejKids + 1) :
        RejNodeCall("insert_child", index, InsertChild(node, index, child),
                    index <= Len(node.children))

RejSetContent ==
    \E text \in RejTexts :
        LET r == SetContent(node, text) IN RejNodeCall("set_content", text, r.node, r.ok)

RejAppendContent ==
    \E text \in RejTexts :
        LET r == AppendContent(node, text) IN RejNodeCall("append_content", text, r.node, r.ok)

RejMerge ==
    \E other \in RejOperands :
        LET r == Merge(node, other) IN RejNodeCall("merge", other, r.node, r.ok)

RejNext ==
    \/ RejInsertPiece
    \/ RejRemovePiece
    \/ RejSwapPieces
    \/ RejInsertChild
    \/ RejSetContent
    \/ RejAppendContent
    \/ RejMerge

SpecRej == RejInit /\ [][RejNext]_vars

\* The text has a char that content validation refuses for the encoding and
\* line ending: a control character other than '\n', '\r', '\t', a non-ASCII
\* char for ASCII, a '\n' where CRLF is expected.
RefusedText(text, encoding, line_ending) ==
    \/ \E k \in 1..Len(text) : text[k] = 1
    \/ encoding = "ASCII" /\ \E k \in 1..Len(text) : text[k] >= 128
    \/ line_ending = "CRLF" /\ \E k \in 1..Len(text) : text[k] = NL

BufferAsBefore ==
    pieces = bufRet.before.pieces /\ total_length = bufRet.before.total_length

NodeAsBefore ==
    /\ node.content = nodeRet.before.content
    /\ node.length = nodeRet.before.length
    /\ node.children = nodeRet.before.children

\* C16: a mutation that is rejected returns its failure value and leaves the
\* receiver as it was: insert_piece with index > pieces_count(), remove_piece
\* and swap_pieces with an index >= pieces_count(), insert_child with index >
\* child_count(), set_content / append_content of a content that validation
\* refuses, and merge with a node of another encoding or line ending.
RejectedMutationKeepsReceiver ==
    /\ (bufRet.op = "insert_piece"
          /\ \E i \in bufRet.index : i > Len(bufRet.before.pieces))
            => (bufRet.ret = "insert_piece: Err" /\ BufferAsBefore)
    /\ (bufRet.op = "remove_piece"
          /\ \E i \in bufRet.index : i >= Len(bufRet.before.pieces))
            => (bufRet.ret = "remove_piece: None" /\ BufferAsBefore)
    /\ (bufRet.op = "swap_pieces"
          /\ \E i \in bufRet.index : i >= Len(bufRet.before.pieces))
            => (bufRet.ret = "swap_pieces: Err" /\ BufferAsBefore)
    /\ (nodeRet.op = "insert_child" /\ nodeRet.arg > Len(nodeRet.before.children))
            => NodeAsBefore
    /\ (nodeRet.op = "set_content"
          /\ RefusedText(nodeRet.arg, nodeRet.before.encoding, nodeRet.before.line_ending))
            => (~nodeRet.ok /\ NodeAsBefore)
    /\ (nodeRet.op = "append_content"
          /\ RefusedText(nodeRet.before.content \o nodeRet.arg,
                         nodeRet.before.encoding, nodeRet.before.line_ending))
            => (~nodeRet.ok /\ NodeAsBefore)
    /\ (nodeRet.op = "merge"
          /\ \/ nodeRet.arg.encoding # nodeRet.before.encoding
             \/ nodeRet.arg.line_ending # nodeRet.before.line_ending)
            => (~nodeRet.ok /\ NodeAsBefore)
    /\ (nodeRet.op \in {"set_content", "append_content", "merge"} /\ ~nodeRet.ok)
            => NodeAsBefore

\* A merge with a node of another line ending was refused by a node that has
\* content and a child.
RejectedMutationWitness ==
    /\ nodeRet.op = "merge" /\ ~nodeRet.ok
    /\ nodeRet.arg.line_ending # nodeRet.before.line_ending
    /\ Len(node.content) > 1 /\ Len(node.children) > 0
    /\ NodeAsBefore

-----------------------------------------------------------------------------
(* RopeMetrics (rope/metrics.rs): threads recording into shared counters    *)

\* RopeMetrics::new(): every counter is 0. A counter below 0 stands for the
\* wrapped value 2^64 + v that fetch_sub leaves.
NewMetrics ==
    [total_nodes |-> 0, total_leaves |-> 0, total_internal_nodes |-> 0,
     max_height |-> 0, total_splits |-> 0, total_merges |-> 0,
     total_rebalances |-> 0, total_insertions |-> 0, total_deletions |-> 0,
     total_searches |-> 0, total_rotations |-> 0, total_bytes |-> 0,
     total_operations |-> 0, total_time_nanos |-> 0, peak_memory_usage |-> 0,
     cache_hits |-> 0, cache_misses |-> 0]

\* One atomic read-modify-write on one counter.
FetchAdd(m, counter, v) == [m EXCEPT ![counter] = @ + v]
FetchSub(m, counter, v) == [m EXCEPT ![counter] = @ - v]
FetchMaxStores(m, counter, v) == [m EXCEPT ![counter] = v]
FetchMax(m, counter, v) == [m EXCEPT ![counter] = Max(@, v)]

MetricThreads == {"t1", "t2"}
MaxMetricCalls == 3
MaxMetricArg == 2
MetricArgs == 1..MaxMetricArg

NotCalling == [op |-> "idle", arg |-> 0, pc |-> 0]

\* Calls begun and not yet returned.
InFlight == { t \in MetricThreads : threads.proc[t] # NotCalling }

MetricInit ==
    /\ metrics = NewMetrics
    /\ threads = [proc |-> [t \in MetricThreads |-> NotCalling], called |-> EmptyBag]
    /\ BufIdle /\ PieceIdle /\ NodeIdle /\ ChunkIdle /\ IterIdle /\ EncIdle /\ LineIdle

\* The position of thread t inside method op called with arg: 0 when the
\* thread is free to begin the call.
MetricPc(t, op, arg) ==
    IF threads.proc[t] = NotCalling THEN 0 ELSE threads.proc[t].pc

MetricMay(t, op, arg) ==
    \/ /\ threads.proc[t] = NotCalling
       /\ BagCardinality(threads.called) + Cardinality(InFlight) < MaxMetricCalls
    \/ /\ threads.proc[t].op = op
       /\ threads.proc[t].arg = arg

\* Thread t has done one more atomic operation of a method that has `steps` of
\* them, leaving the counters as m; after the last one the call returns.
MetricStep(t, op, arg, steps, m) ==
    /\ MetricMay(t, op, arg)
    /\ metrics' = m
    /\ threads' =
         IF MetricPc(t, op, arg) + 1 = steps
         THEN [proc   |-> [threads.proc EXCEPT ![t] = NotCalling],
               called |-> threads.called (+) SetToBag({[op |-> op, arg |-> arg]})]
         ELSE [threads EXCEPT !.proc[t] =
                  [op |-> op, arg |-> arg, pc |-> MetricPc(t, op, arg) + 1]]
    /\ UNCHANGED <<bufVars, pieceVars, nodeVars, chunkVars, iterVars, encVars, lineVars>>

RecordInsertion(t) ==
    \E bytes \in MetricArgs :
        MetricStep(t, "record_insertion", bytes, 3,
            CASE MetricPc(t, "record_insertion", bytes) = 0 ->
                     FetchAdd(metrics, "total_insertions", 1)
              [] MetricPc(t, "record_insertion", bytes) = 1 ->
                     FetchAdd(metrics, "total_bytes", bytes)
              [] OTHER -> FetchAdd(metrics, "total_operations", 1))

RecordDeletion(t) ==
    \E bytes \in MetricArgs :
        MetricStep(t, "record_deletion", bytes, 3,
            CASE MetricPc(t, "record_deletion", bytes) = 0 ->
                     FetchAdd(metrics, "total_deletions", 1)
              [] MetricPc(t, "record_deletion", bytes) = 1 ->
                     FetchSub(metrics, "total_bytes", bytes)
              [] OTHER -> FetchAdd(metrics, "total_operations", 1))

RecordSearch(t) ==
    MetricStep(t, "record_search", 0, 2,
        IF MetricPc(t, "record_search", 0) = 0
        THEN FetchAdd(metrics, "total_searches", 1)
        ELSE FetchAdd(metrics, "total_operations", 1))

RecordSplit(t) ==
    MetricStep(t, "record_split", 0, 1, FetchAdd(metrics, "total_splits", 1))

RecordMerge(t) ==
    MetricStep(t, "record_merge", 0, 1, FetchAdd(metrics, "total_merges", 1))

RecordRebalance(t) ==
    MetricStep(t, "record_rebalance", 0, 1, FetchAdd(metrics, "total_rebalances", 1))

RecordRotation(t) ==
    MetricStep(t, "record_rotation", 0, 1, FetchAdd(metrics, "total_rotations", 1))

\* duration.as_nanos() as u64 is the number of nanoseconds for every duration
\* below 2^64 ns.
RecordTime(t) ==
    \E nanos \in MetricArgs :
        MetricStep(t, "record_time", nanos, 1, FetchAdd(metrics, "total_time_nanos", nanos))

\* is_leaf is kept in the call's arg as 1 (true) or 0 (false).
RecordNode(t) ==
    \E is_leaf \in BOOLEAN :
        LET arg == IF is_leaf THEN 1 ELSE 0
        IN  MetricStep(t, "record_node", arg, 2,
                IF MetricPc(t, "record_node", arg) = 0
                THEN FetchAdd(metrics, "total_nodes", 1)
                ELSE IF is_leaf
                     THEN FetchAdd(metrics, "total_leaves", 1)
                     ELSE FetchAdd(metrics, "total_internal_nodes", 1))

RecordNodeRemoved(t) ==
    \E is_leaf \in BOOLEAN :
        LET arg == IF is_leaf THEN 1 ELSE 0
        IN  MetricStep(t, "record_node_removed", arg, 2,
                IF MetricPc(t, "record_node_removed", arg) = 0
                THEN FetchSub(metrics, "total_nodes", 1)
                ELSE IF is_leaf
                     THEN FetchSub(metrics, "total_leaves", 1)
                     ELSE FetchSub(metrics, "total_internal_nodes", 1))

UpdateMaxHeight(t) ==
    \E height \in MetricArgs :
        MetricStep(t, "update_max_height", height, 1, FetchMax(metrics, "max_height", height))

RecordMemoryUsage(t) ==
    \E bytes \in MetricArgs :
        MetricStep(t, "record_memory_usage", bytes, 1,
                   FetchMax(metrics, "peak_memory_usage", bytes))

RecordCacheHit(t) ==
    MetricStep(t, "record_cache_hit", 0, 1, FetchAdd(metrics, "cache_hits", 1))

RecordCacheMiss(t) ==
    MetricStep(t, "record_cache_miss", 0, 1, FetchAdd(metrics, "cache_misses", 1))

MetricNext ==
    \E t \in MetricThreads :
        \/ RecordInsertion(t)
        \/ RecordDeletion(t)
        \/ RecordSearch(t)
        \/ RecordSplit(t)
        \/ RecordMerge(t)
        \/ RecordRebalance(t)
        \/ RecordRotation(t)
        \/ RecordTime(t)
        \/ RecordNode(t)
        \/ RecordNodeRemoved(t)
        \/ UpdateMaxHeight(t)
        \/ RecordMemoryUsage(t)
        \/ RecordCacheHit(t)
        \/ RecordCacheMiss(t)

SpecMetrics == MetricInit /\ [][MetricNext]_vars

\* The calls that have returned, as a set of [op, arg] with their numbers.
Returned == BagToSet(threads.called)

RECURSIVE SumReturned(_, _)
\* Over the returned calls in S: the number of calls to a method in ops, each
\* counted arg times when byArg.
SumReturned(S, byArg) ==
    IF S = {} THEN 0
    ELSE LET c == CHOOSE x \in S : TRUE
         IN  threads.called[c] * (IF byArg THEN c.arg ELSE 1) + SumReturned(S \ {c}, byArg)

CallsTo(ops) == SumReturned({ c \in Returned : c.op \in ops }, FALSE)
CallsWith(op, arg) == SumReturned({ c \in Returned : c.op = op /\ c.arg = arg }, FALSE)
ArgSum(op) == SumReturned({ c \in Returned : c.op = op }, TRUE)
LargestArg(op) ==
    LET args == { c.arg : c \in { x \in Returned : x.op = op } }
    IN  IF args = {} THEN 0 ELSE CHOOSE a \in args : \A b \in args : b <= a

\* C18: once every call has returned, each counter is the number (or the sum
\* of the arguments) of the calls that targeted it, total_operations is the
\* number of record_insertion, record_deletion and record_search calls, and
\* max_height and peak_memory_usage are the largest value passed.
NoLostUpdate ==
    InFlight = {} =>
        /\ metrics.total_insertions = CallsTo({"record_insertion"})
        /\ metrics.total_deletions = CallsTo({"record_deletion"})
        /\ metrics.total_searches = CallsTo({"record_search"})
        /\ metrics.total_operations =
              CallsTo({"record_insertion", "record_deletion", "record_search"})
        /\ metrics.total_bytes = ArgSum("record_insertion") - ArgSum("record_deletion")
        /\ metrics.total_splits = CallsTo({"record_split"})
        /\ metrics.total_merges = CallsTo({"record_merge"})
        /\ metrics.total_rebalances = CallsTo({"record_rebalance"})
        /\ metrics.total_rotations = CallsTo({"record_rotation"})
        /\ metrics.total_time_nanos = ArgSum("record_time")
        /\ metrics.total_nodes = CallsTo({"record_node"}) - CallsTo({"record_node_removed"})
        /\ metrics.total_leaves =
              CallsWith("record_node", 1) - CallsWith("record_node_removed", 1)
        /\ metrics.total_internal_nodes =
              CallsWith("record_node", 0) - CallsWith("record_node_removed", 0)
        /\ metrics.max_height = LargestArg("update_max_height")
        /\ metrics.peak_memory_usage = LargestArg("record_memory_usage")
        /\ metrics.cache_hits = CallsTo({"record_cache_hit"})
        /\ metrics.cache_misses = CallsTo({"record_cache_miss"})

\* Every call has returned, among them two record_insertion calls and one
\* record_deletion.
NoLostUpdateWitness ==
    /\ InFlight = {}
    /\ CallsTo({"record_insertion"}) = 2
    /\ CallsTo({"record_deletion"}) = 1
    /\ metrics.total_operations = 3
    /\ metrics.total_bytes = 2 * MaxMetricArg - 1

-----------------------------------------------------------------------------
(* RopeLineIterator (rope/iterator.rs): the lines() view                    *)

\* RopeIterator::lines.
Lines(it) == [rope_iter |-> it, current_line |-> <<>>]

\* The while loop of RopeLineIterator::next: [it, line].
RECURSIVE LineLoop(_, _)
LineLoop(it, line) ==
    LET r == IteratorNext(it)
    IN  IF ~r.ret.some THEN [it |-> it, line |-> line]
        ELSE IF r.ret.val = NL THEN [it |-> r.it, line |-> line]
        ELSE LineLoop(r.it, Append(line, r.ret.val))

\* RopeLineIterator::next: [it, ret], it the line iterator after the call.
LineIteratorNext(li) ==
    IF li.rope_iter.exhausted THEN [it |-> li, ret |-> None]
    ELSE LET r == LineLoop(li.rope_iter, <<>>)
             after == [rope_iter |-> r.it, current_line |-> r.line]
         IN  IF r.line = <<>> /\ r.it.exhausted
             THEN [it |-> after, ret |-> None]
             ELSE [it |-> after, ret |-> Some(r.line)]

MaxLineLeafLen == 2    \* chars of a leaf chunk

\* 'a' and '\n'
LineChars == {97, NL}

LineLeaves == { Leaf(t) : t \in SeqsUpTo(LineChars, MaxLineLeafLen) \ {<<>>} }

\* A single leaf, a root over one or two leaves, and a root with a nested
\* branch before a leaf; every leaf holds text.
LineTrees ==
    LineLeaves
    \cup { Branch(<<x>>) : x \in LineLeaves }
    \cup { Branch(<<x, y>>) : x \in LineLeaves, y \in LineLeaves }
    \cup { Branch(<<Branch(<<x>>), y>>) : x \in LineLeaves, y \in LineLeaves }

MaxLineNones == 2      \* calls of next() that return None

\* iterRet: the last call, its result, the lines next() has returned, and the
\* number of calls that returned None.
LinesInit ==
    /\ \E root \in LineTrees :
         /\ tree = root
         /\ iter = Lines(IterNew(root, None))
    /\ iterRet = [op |-> "lines", ret |-> None, out |-> <<>>, nones |-> 0]
    /\ BufIdle /\ PieceIdle /\ NodeIdle /\ ChunkIdle /\ EncIdle
    /\ LineIdle /\ MetricIdle

DoLineNext ==
    /\ iterRet.nones < MaxLineNones
    /\ LET r == LineIteratorNext(iter)
       IN  /\ iter' = r.it
           /\ iterRet' = [op |-> "next", ret |-> r.ret,
                          out |-> IF r.ret.some THEN Append(iterRet.out, r.ret.val)
                                  ELSE iterRet.out,
                          nones |-> iterRet.nones + (IF r.ret.some THEN 0 ELSE 1)]
    /\ UNCHANGED <<tree, bufVars, pieceVars, nodeVars, chunkVars, encVars, lineVars, metricVars>>

LinesNext == DoLineNext

SpecLines == LinesInit /\ [][LinesNext]_vars

\* The segments between the '\n' of a text: one more than it has '\n'.
RECURSIVE SplitOnNewline(_, _)
SplitOnNewline(text, seg) ==
    IF text = <<>> THEN <<seg>>
    ELSE IF Head(text) = NL THEN <<seg>> \o SplitOnNewline(Tail(text), <<>>)
    ELSE SplitOnNewline(Tail(text), Append(seg, Head(text)))

\* The segments without the empty one after a final '\n'.
ExpectedLines(text) ==
    LET segs == SplitOnNewline(text, <<>>)
    IN  IF text # <<>> /\ text[Len(text)] = NL
        THEN SubSeq(segs, 1, Len(segs) - 1)
        ELSE segs

\* C19: lines() over an unrestricted iterator returns the segments of the
\* text between its '\n', in order, empty ones inside the text too, but not
\* the empty one after a final '\n'; then it returns None.
LinesYieldSegments ==
    LET expected == ExpectedLines(Doc(tree))
    IN  /\ IsPrefix(iterRet.out, expected)
        /\ (iterRet.op = "next" /\ ~iterRet.ret.some) => iterRet.out = expected

-----------------------------------------------------------------------------
(* Chunk byte/char index conversion (rope/chunk.rs)                         *)

\* text.chars().count(): the bytes that begin a char.
RECURSIVE CharsCount(_)
CharsCount(text) ==
    IF text = <<>> THEN 0
    ELSE (IF IsContinuation(Head(text)) THEN 0 ELSE 1) + CharsCount(Tail(text))

\* text.char_indices(): the byte offset of each char, in order.
RECURSIVE CharIndices(_, _)
CharIndices(text, from) ==
    IF from >= Len(text) THEN <<>>
    ELSE <<from>> \o CharIndices(text, from + Utf8LenOfLead(text[from + 1]))

\* [ret, panic]: &text[..byte_idx] panics when byte_idx is inside a char.
ChunkByteToChar(c, byte_idx) ==
    IF byte_idx > ChunkLen(c) THEN [ret |-> None, panic |-> FALSE]
    ELSE IF ~IsCharBoundary(c.text, byte_idx) THEN [ret |-> None, panic |-> TRUE]
    ELSE [ret |-> Some(CharsCount(Bytes(c.text, 0, byte_idx))), panic |-> FALSE]

\* What char_to_byte returns when the for loop is left without a return.
CharToByteEnd(c, char_idx) ==
    IF char_idx = CharsCount(c.text) THEN Some(ChunkLen(c)) ELSE None

\* The for loop of char_to_byte from the k-th char on.
RECURSIVE CharToByteLoop(_, _, _, _)
CharToByteLoop(c, char_idx, k, byte_idx) ==
    LET idxs == CharIndices(c.text, 0)
    IN  IF k > Len(idxs) THEN CharToByteEnd(c, char_idx)
        ELSE IF char_idx = 0 THEN Some(byte_idx)
        ELSE IF char_idx = 1 THEN Some(idxs[k])
        ELSE CharToByteLoop(c, char_idx, k + 1, idxs[k])

ChunkCharToByte(c, char_idx) == CharToByteLoop(c, char_idx, 1, 0)

MaxConvChars == 3      \* chars of the Chunk whose indices are converted

\* 'a', U+00E9 (2 bytes), U+1F600 (4 bytes)
ConvChars == {97, 233, 128512}

ConvInit ==
    /\ \E cs \in SeqsUpTo(ConvChars, MaxConvChars) : chunk = ChunkNew(Utf8OfChars(cs))
    /\ chunkRet = [op |-> "new"]
    /\ BufIdle /\ PieceIdle /\ NodeIdle /\ IterIdle /\ EncIdle
    /\ LineIdle /\ MetricIdle

\* Both take &self. A call that panics returns nothing.
ConvCall(op, at, r) ==
    /\ chunkRet.op = "new"
    /\ chunkRet' = [op |-> op, at |-> at, ret |-> r.ret, panic |-> r.panic]
    /\ UNCHANGED <<chunk, bufVars, pieceVars, nodeVars, iterVars, encVars, lineVars, metricVars>>

DoByteToChar ==
    \E b \in ChunkIndices : ConvCall("byte_to_char", b, ChunkByteToChar(chunk, b))

DoCharToByte ==
    \E k \in 0..(CharsCount(chunk.text) + 2) :
        ConvCall("char_to_byte", k, [ret |-> ChunkCharToByte(chunk, k), panic |-> FALSE])

ConvNext == DoByteToChar \/ DoCharToByte

SpecConv == ConvInit /\ [][ConvNext]_vars

\* The chars of the text that start before byte b.
CharsBefore(text, b) ==
    Cardinality({ i \in 0..(Len(text) - 1) : i < b /\ ~IsContinuation(text[i + 1]) })

\* The byte offset at which char k of the text starts; the length for k = the
\* number of chars.
StartOfChar(text, k) ==
    IF k = CharsBefore(text, Len(text)) THEN Len(text)
    ELSE CHOOSE i \in 0..(Len(text) - 1) :
            ~IsContinuation(text[i + 1]) /\ CharsBefore(text, i) = k

\* C20: byte_to_char(b) is Some(the number of chars that start before byte b)
\* for every b <= len(), inside a multi-byte char too, and None for b > len();
\* char_to_byte(k) is Some(the byte offset where char k starts, len() for
\* k = char_len()) for every k <= char_len(), and None for k > char_len().
ConversionIsExact ==
    /\ chunkRet.op = "byte_to_char" =>
          /\ ~chunkRet.panic
          /\ chunkRet.ret = IF chunkRet.at <= Len(chunk.text)
                            THEN Some(CharsBefore(chunk.text, chunkRet.at))
                            ELSE None
    /\ chunkRet.op = "char_to_byte" =>
          chunkRet.ret = IF chunkRet.at <= CharsBefore(chunk.text, Len(chunk.text))
                         THEN Some(StartOfChar(chunk.text, chunkRet.at))
                         ELSE None

-----------------------------------------------------------------------------
(* set_content and split on a new childless Node (rope/node.rs)             *)

MaxSetChars == 2       \* chars of the old and of the new content

\* 'a', '\n', U+00E9 (2 bytes)
SetChars == {97, NL, 233}

SetTexts == { Utf8OfChars(cs) : cs \in SeqsUpTo(SetChars, MaxSetChars) }

SetInit ==
    /\ \E t \in SetTexts : node = NodeNew(t, "UTF8", "LF")
    /\ nodeRet = [op |-> "new"]
    /\ BufIdle /\ PieceIdle /\ ChunkIdle /\ IterIdle /\ EncIdle
    /\ LineIdle /\ MetricIdle

\* set_content(c) on the new node; nodeRet keeps the node as it was.
DoSetContent ==
    /\ nodeRet.op = "new"
    /\ \E c \in SetTexts :
         LET r == SetContent(node, c)
         IN  /\ node' = r.node
             /\ nodeRet' = [op |-> "set_content", arg |-> c, before |-> node,
                            ok |-> r.ok, panic |-> FALSE]
    /\ UNCHANGED <<bufVars, pieceVars, chunkVars, iterVars, encVars, lineVars, metricVars>>

\* split(index) on the new node.
DoSplitNew ==
    /\ nodeRet.op = "new"
    /\ \E index \in 0..(Len(node.content) + 1) :
         LET r == Split(node, index)
         IN  /\ node' = r.node
             /\ nodeRet' = [op |-> "split", arg |-> index, before |-> node,
                            ok |-> r.ret.some, panic |-> r.panic]
    /\ UNCHANGED <<bufVars, pieceVars, chunkVars, iterVars, encVars, lineVars, metricVars>>

SetNext == DoSetContent \/ DoSplitNew

SpecSet == SetInit /\ [][SetNext]_vars

\* C21: after set_content(c) succeeds on a childless node the cached length is
\* the byte length of c, whatever the old content's length was; after a
\* successful split(index) the cached length of self is index.
SetContentCachesLength ==
    /\ (nodeRet.op = "set_content" /\ nodeRet.ok) => node.length = Len(nodeRet.arg)
    /\ (nodeRet.op = "split" /\ nodeRet.ok) => node.length = nodeRet.arg

-----------------------------------------------------------------------------
(* balance() on a root whose first child has children of its own           *)

MaxDeepKids == 5       \* leaf children of the inner node
MaxDeepSiblings == 2   \* leaves added to the root after the inner node

\* The inner node is built first, with add_child.
DeepInit ==
    /\ node = NodeNew(<<>>, "UTF8", "LF")
    /\ nodeRet = [op |-> "inner"]
    /\ BufIdle /\ PieceIdle /\ ChunkIdle /\ IterIdle /\ EncIdle
    /\ LineIdle /\ MetricIdle

DeepAddLeaf ==
    /\ nodeRet.op = "inner"
    /\ Len(node.children) < MaxDeepKids
    /\ \E leaf \in BalanceLeaves : node' = AddChild(node, leaf)
    /\ UNCHANGED <<nodeRet, bufVars, pieceVars, chunkVars, iterVars, encVars, lineVars, metricVars>>

\* A new root takes the inner node as its first child.
DeepAddInner ==
    /\ nodeRet.op = "inner"
    /\ node' = AddChild(NodeNew(<<>>, "UTF8", "LF"), node)
    /\ nodeRet' = [op |-> "root"]
    /\ UNCHANGED <<bufVars, pieceVars, chunkVars, iterVars, encVars, lineVars, metricVars>>

DeepAddSibling ==
    /\ nodeRet.op = "root"
    /\ Len(node.children) < 1 + MaxDeepSiblings
    /\ \E leaf \in BalanceLeaves : node' = AddChild(node, leaf)
    /\ UNCHANGED <<nodeRet, bufVars, pieceVars, chunkVars, iterVars, encVars, lineVars, metricVars>>

\* root.balance(); nodeRet keeps the root as it was.
DeepBalance ==
    /\ nodeRet.op = "root"
    /\ node' = Balance(node)
    /\ nodeRet' = [op |-> "balance", before |-> node]
    /\ UNCHANGED <<bufVars, pieceVars, chunkVars, iterVars, encVars, lineVars, metricVars>>

DeepNext == DeepAddLeaf \/ DeepAddInner \/ DeepAddSibling \/ DeepBalance

SpecDeep == DeepInit /\ [][DeepNext]_vars

\* C22: after root.balance(), a descendant that had more than 4 children has
\* had them split, its right half wrapped in a new last child, however many
\* children the root has.
BalanceReachesDescendants ==
    (nodeRet.op = "balance" /\ Len(nodeRet.before.children[1].children) > 4) =>
        LET was == nodeRet.before.children[1].children
            now == node.children[1].children
            mid == Len(was) \div 2
        IN  /\ Len(now) = mid + 1
            /\ SubSeq(now, 1, mid) = SubSeq(was, 1, mid)
            /\ now[mid + 1].children = SubSeq(was, mid + 1, Len(was))

-----------------------------------------------------------------------------
(* next() and next_back() on one RopeIterator (rope/iterator.rs)            *)

MaxBackLeafLen == 2    \* chars of a leaf chunk
MaxBackCalls == 4      \* calls of next() and next_back() on one iterator

\* 'a', 'b', 'c'
BackChars == {97, 98, 99}

\* No char occurs twice: a char of the text names its position.
Distinct(s) == \A i \in 1..Len(s) : \A j \in 1..Len(s) : (s[i] = s[j]) => (i = j)

BackLeaves == { Leaf(t) : t \in SeqsUpTo(BackChars, MaxBackLeafLen) \ {<<>>} }

\* A single leaf, a root over two leaves, and a root with a nested branch
\* before a leaf; every leaf holds text and no char is repeated.
BackTrees ==
    { t \in BackLeaves
            \cup { Branch(<<x, y>>) : x \in BackLeaves, y \in BackLeaves }
            \cup { Branch(<<Branch(<<x>>), y>>) : x \in BackLeaves, y \in BackLeaves } :
        Distinct(Doc(t)) }

\* iterRet: the last call, its result, the chars returned so far, the number
\* of calls, and whether every call was next_back().
BackInit ==
    /\ \E root \in BackTrees :
         /\ tree = root
         /\ iter = IterNew(root, None)
    /\ iterRet = [op |-> "new", ret |-> None, out |-> <<>>, calls |-> 0, back |-> TRUE]
    /\ BufIdle /\ PieceIdle /\ NodeIdle /\ ChunkIdle /\ EncIdle
    /\ LineIdle /\ MetricIdle

BackCall(op, r) ==
    /\ iterRet.calls < MaxBackCalls
    /\ iter' = r.it
    /\ iterRet' = [op |-> op, ret |-> r.ret,
                   out |-> IF r.ret.some THEN Append(iterRet.out, r.ret.val)
                           ELSE iterRet.out,
                   calls |-> iterRet.calls + 1,
                   back |-> iterRet.back /\ op = "next_back"]
    /\ UNCHANGED <<tree, bufVars, pieceVars, nodeVars, chunkVars, encVars, lineVars, metricVars>>

BackNext == BackCall("next", IteratorNext(iter))

BackNextBack == BackCall("next_back", NextBack(iter))

BackStep == BackNext \/ BackNextBack

SpecBack == BackInit /\ [][BackStep]_vars

RECURSIVE Reverse(_)
Reverse(s) == IF s = <<>> THEN <<>> ELSE Append(Reverse(Tail(s)), Head(s))

\* C23: on a new unrestricted iterator over an ASCII tree, next_back() alone
\* returns the chars of the text last to first, each once, then None; and
\* however next() and next_back() are mixed, no position of the text is
\* returned twice.
NextBackYieldsReverse ==
    /\ (iterRet.back /\ iterRet.op = "next_back") =>
          /\ IsPrefix(iterRet.out, Reverse(Doc(tree)))
          /\ ~iterRet.ret.some => iterRet.out = Reverse(Doc(tree))
    /\ Distinct(iterRet.out)

-----------------------------------------------------------------------------
(* PieceDescriptor::merge (piece_table/descriptor.rs)                       *)

DescCanMerge(d, other) ==
    /\ PieceCanMerge(d.piece, other.piece)
    /\ (GlobalEnd(d) = other.global_start \/ GlobalEnd(other) = d.global_start)

\* Option<Self>
DescMerge(d, other) ==
    IF ~DescCanMerge(d, other) THEN None
    ELSE LET merged_piece == PieceMerge(d.piece, other.piece)
         IN  IF ~merged_piece.some THEN None
             ELSE Some(Descriptor(merged_piece.val, Min(d.global_start, other.global_start)))

\* a.merge(b) for the descriptor under test and another one.
DoDescMerge ==
    /\ pd.op = "new"
    /\ \E p \in TestPieces, g \in 0..(MaxGlobal + MaxPieceEnd) :
         pd' = [d |-> pd.d, op |-> "merge", other |-> Descriptor(p, g),
                ret |-> DescMerge(pd.d, Descriptor(p, g))]
    /\ UNCHANGED <<bufVars, nodeVars, chunkVars, iterVars, encVars, lineVars, metricVars>>

MergeNext == DoDescMerge

SpecMerge == PieceInit /\ [][MergeNext]_vars

\* C24: when a.merge(b) is Some(m), the global range of m is the union of the
\* global ranges of a and b, and m maps every global index that a or b
\* contains to the local index that a or b maps it to; so a merge of pieces
\* whose local order is the reverse of their global order is refused.
MergeKeepsMapping ==
    (pd.op = "merge" /\ pd.ret.some) =>
        LET a == pd.d
            b == pd.other
            m == pd.ret.val
        IN  /\ m.global_start = Min(a.global_start, b.global_start)
            /\ GlobalEnd(m) = Max(GlobalEnd(a), GlobalEnd(b))
            /\ DescLen(m) = DescLen(a) + DescLen(b)
            /\ \A g \in 0..(2 * (MaxGlobal + MaxPieceEnd)) :
                  /\ ContainsGlobal(a, g) => GlobalToLocal(m, g) = GlobalToLocal(a, g)
                  /\ ContainsGlobal(b, g) => GlobalToLocal(m, g) = GlobalToLocal(b, g)

-----------------------------------------------------------------------------
(* The text of a Node across merge (rope/node.rs)                           *)

MaxMergeChars == 2     \* chars of the content of a node
MaxMergeKids == 2      \* children of the node that merge is called on

\* 'a', 'b'
MergeChars == {97, 98}

MergeLeaves == { NodeNew(t, "UTF8", "LF") : t \in SeqsUpTo(MergeChars, MaxMergeChars) }

\* The nodes given to merge: leaves, and nodes with one leaf child.
MergeOperands ==
    MergeLeaves \cup { AddChild(x, y) : x \in MergeLeaves, y \in MergeLeaves }

TextInit ==
    /\ node \in MergeLeaves
    /\ nodeRet = [op |-> "new"]
    /\ BufIdle /\ PieceIdle /\ ChunkIdle /\ IterIdle /\ EncIdle
    /\ LineIdle /\ MetricIdle

TextAddChild ==
    /\ nodeRet.op # "merge"
    /\ Len(node.children) < MaxMergeKids
    /\ \E child \in MergeLeaves : node' = AddChild(node, child)
    /\ nodeRet' = [op |-> "add_child"]
    /\ UNCHANGED <<bufVars, pieceVars, chunkVars, iterVars, encVars, lineVars, metricVars>>

\* self.merge(other); nodeRet keeps self as it was and other.
TextMerge ==
    /\ nodeRet.op # "merge"
    /\ \E other \in MergeOperands :
         LET r == Merge(node, other)
         IN  /\ node' = r.node
             /\ nodeRet' = [op |-> "merge", before |-> node, other |-> other, ok |-> r.ok]
    /\ UNCHANGED <<bufVars, pieceVars, chunkVars, iterVars, encVars, lineVars, metricVars>>

TextNext == TextAddChild \/ TextMerge

SpecText == TextInit /\ [][TextNext]_vars

\* A node read as text: its own content, then its children in order.
RECURSIVE NodeText(_)
NodeText(n) ==
    LET RECURSIVE Cat(_)
        Cat(k) == IF k > Len(n.children) THEN <<>>
                  ELSE NodeText(n.children[k]) \o Cat(k + 1)
    IN  n.content \o Cat(1)

\* C25: after a successful self.merge(other) the text of self is the text
\* self had before followed by the text of other, also when self has
\* children and other has content of its own.
MergeKeepsText ==
    (nodeRet.op = "merge" /\ nodeRet.ok) =>
        NodeText(node) = NodeText(nodeRet.before) \o NodeText(nodeRet.other)

-----------------------------------------------------------------------------
(* balance() and the cached length (rope/node.rs)                           *)

MaxShapeAdded == 5     \* leaf children added before balance()

\* remove_child in a build with or without overflow checks: `self.length -=`
\* panics on underflow when they are on (the child is already taken out of
\* children), and wraps when they are off.  [node, ret, panic]
RemoveChildBuild(n, index, overflow_checks) ==
    IF index < Len(n.children)
       /\ overflow_checks
       /\ n.length >= 0
       /\ n.length - TotalLength(n.children[index + 1]) < 0
    THEN [node |-> [n EXCEPT !.children = RemoveAt(@, index)], ret |-> None, panic |-> TRUE]
    ELSE [node |-> RemoveChild(n, index).node, ret |-> RemoveChild(n, index).ret,
          panic |-> FALSE]

\* nodeRet.checks: whether the build has overflow checks (a debug build).
ShapeInit ==
    /\ node \in BalanceLeaves
    /\ \E checks \in BOOLEAN : nodeRet = [op |-> "new", checks |-> checks]
    /\ BufIdle /\ PieceIdle /\ ChunkIdle /\ IterIdle /\ EncIdle
    /\ LineIdle /\ MetricIdle

ShapeAddChild ==
    /\ nodeRet.op \in {"new", "add_child"}
    /\ Len(node.children) < MaxShapeAdded
    /\ \E child \in BalanceLeaves : node' = AddChild(node, child)
    /\ nodeRet' = [op |-> "add_child", checks |-> nodeRet.checks]
    /\ UNCHANGED <<bufVars, pieceVars, chunkVars, iterVars, encVars, lineVars, metricVars>>

\* balance(); nodeRet keeps the node as it was.
ShapeBalance ==
    /\ nodeRet.op \in {"new", "add_child"}
    /\ node' = Balance(node)
    /\ nodeRet' = [op |-> "balance", checks |-> nodeRet.checks, before |-> node]
    /\ UNCHANGED <<bufVars, pieceVars, chunkVars, iterVars, encVars, lineVars, metricVars>>

\* remove_child(index) right after balance().
ShapeRemoveChild ==
    /\ nodeRet.op = "balance"
    /\ \E index \in 0..Len(node.children) :
         LET r == RemoveChildBuild(node, index, nodeRet.checks)
         IN  /\ node' = r.node
             /\ nodeRet' = [op |-> "remove_child", checks |-> nodeRet.checks,
                            ret |-> r.ret, panic |-> r.panic]
    /\ UNCHANGED <<bufVars, pieceVars, chunkVars, iterVars, encVars, lineVars, metricVars>>

ShapeNext == ShapeAddChild \/ ShapeBalance \/ ShapeRemoveChild

SpecShape == ShapeInit /\ [][ShapeNext]_vars

\* C26: for a node built with add_child, total_length() and the text of the
\* subtree are the same before and after balance(), and a remove_child after
\* balance() does not take the cached length below zero.
BalanceChangesShapeOnly ==
    /\ nodeRet.op = "balance" =>
          /\ TotalLength(node) = TotalLength(nodeRet.before)
          /\ NodeText(node) = NodeText(nodeRet.before)
    /\ nodeRet.op = "remove_child" => (~nodeRet.panic /\ node.length >= 0)

-----------------------------------------------------------------------------
(* The lines() view called again and again (rope/iterator.rs)               *)

MaxLiveLeafLen == 1    \* chars of a leaf chunk

\* Leaves with and without text.
LiveLeaves == { Leaf(t) : t \in SeqsUpTo(LineChars, MaxLiveLeafLen) }

LiveTrees == LiveLeaves \cup { Branch(<<x, y>>) : x \in LiveLeaves, y \in LiveLeaves }

\* iterRet: the last call, its result, and whether the number of calls so far
\* is odd.
LiveInit ==
    /\ \E root \in LiveTrees :
         /\ tree = root
         /\ \E r \in IterRanges(root) : iter = Lines(IterNew(root, r))
    /\ iterRet = [op |-> "lines", ret |-> None, odd |-> FALSE]
    /\ BufIdle /\ PieceIdle /\ NodeIdle /\ ChunkIdle /\ EncIdle
    /\ LineIdle /\ MetricIdle

LiveLineNext ==
    /\ LET r == LineIteratorNext(iter)
       IN  /\ iter' = r.it
           /\ iterRet' = [op |-> "next", ret |-> r.ret, odd |-> ~iterRet.odd]
    /\ UNCHANGED <<tree, bufVars, pieceVars, nodeVars, chunkVars, encVars, lineVars, metricVars>>

LiveNext == LiveLineNext

\* The caller keeps calling next().
SpecLive == LiveInit /\ [][LiveNext]_vars /\ WF_vars(LiveNext)

\* C27: for every finite tree and every optional range, calling next() on
\* the lines() view again and again eventually returns None.
LinesEventuallyNone == <>(iterRet.op = "next" /\ ~iterRet.ret.some)

-----------------------------------------------------------------------------
(* RopeChunkIterator (rope/iterator.rs): chunks(root, range)                *)

\* RopeIterator::chunks
Chunks(root, range) ==
    [stack |-> <<Frame(root, 0)>>, range |-> range, traversed_length |-> 0]

\* RopeChunkIterator::next: [it, ret].
RECURSIVE ChunkIteratorNext(_)
ChunkIteratorNext(ci) ==
    IF ci.stack = <<>> THEN [it |-> ci, ret |-> None]
    ELSE LET top == Top(ci.stack)
             popped == [ci EXCEPT !.stack = Pop(ci.stack)]
         IN  IF IsLeaf(top.node)
             THEN IF ci.range.some /\ ci.traversed_length >= ci.range.val.end
                  THEN [it |-> popped, ret |-> None]
                  ELSE [it  |-> [popped EXCEPT !.traversed_length = @ + Len(top.node.chunk)],
                        ret |-> Some(top.node.chunk)]
             ELSE IF top.idx < Len(top.node.children)
             THEN ChunkIteratorNext(
                    [popped EXCEPT !.stack = @ \o <<Frame(top.node, top.idx + 1),
                                                    Frame(top.node.children[top.idx + 1], 0)>>])
             ELSE ChunkIteratorNext(popped)

MaxChunksLeafLen == 2  \* chars of a leaf chunk
MaxChunksNones == 2    \* calls of next() that return None

ChunksLeaves == { Leaf(t) : t \in SeqsUpTo({97}, MaxChunksLeafLen) }

\* A single leaf, a root over two leaves, and a root with a nested branch on
\* either side of a leaf.
ChunksTrees ==
    ChunksLeaves
    \cup { Branch(<<x, y>>) : x \in ChunksLeaves, y \in ChunksLeaves }
    \cup { Branch(<<Branch(<<x, y>>), z>>) : x \in ChunksLeaves, y \in ChunksLeaves,
                                             z \in ChunksLeaves }
    \cup { Branch(<<x, Branch(<<y, z>>)>>) : x \in ChunksLeaves, y \in ChunksLeaves,
                                             z \in ChunksLeaves }

\* iterRet: the last call, its result, the chunks returned so far, and the
\* number of calls that returned None.
ChunksInit ==
    /\ \E root \in ChunksTrees :
         /\ tree = root
         /\ \E r \in IterRanges(root) : iter = Chunks(root, r)
    /\ iterRet = [op |-> "chunks", ret |-> None, out |-> <<>>, nones |-> 0]
    /\ BufIdle /\ PieceIdle /\ NodeIdle /\ ChunkIdle /\ EncIdle
    /\ LineIdle /\ MetricIdle

DoChunkNext ==
    /\ iterRet.nones < MaxChunksNones
    /\ LET r == ChunkIteratorNext(iter)
       IN  /\ iter' = r.it
           /\ iterRet' = [op |-> "next", ret |-> r.ret,
                          out |-> IF r.ret.some THEN Append(iterRet.out, r.ret.val)
                                  ELSE iterRet.out,
                          nones |-> iterRet.nones + (IF r.ret.some THEN 0 ELSE 1)]
    /\ UNCHANGED <<tree, bufVars, pieceVars, nodeVars, chunkVars, encVars, lineVars, metricVars>>

ChunksNext == DoChunkNext

SpecChunks == ChunksInit /\ [][ChunksNext]_vars

\* The leaf chunks of a tree, left to right.
RECURSIVE LeafChunks(_)
LeafChunks(n) ==
    IF IsLeaf(n) THEN <<n.chunk>>
    ELSE LET RECURSIVE Cat(_)
             Cat(k) == IF k > Len(n.children) THEN <<>>
                       ELSE LeafChunks(n.children[k]) \o Cat(k + 1)
         IN  Cat(1)

\* Of the chunks, which begin at byte offset at, those whose bytes meet [s, e).
RECURSIVE ChunksMeeting(_, _, _, _)
ChunksMeeting(chunks, at, s, e) ==
    IF chunks = <<>> THEN <<>>
    ELSE (IF at < e /\ at + Len(Head(chunks)) > s /\ Len(Head(chunks)) > 0
          THEN <<Head(chunks)>> ELSE <<>>)
         \o ChunksMeeting(Tail(chunks), at + Len(Head(chunks)), s, e)

ExpectedChunks ==
    IF iter.range.some
    THEN ChunksMeeting(LeafChunks(tree), 0, iter.range.val.start, iter.range.val.end)
    ELSE LeafChunks(tree)

\* C28: chunks(root, None) returns every leaf chunk once, left to right;
\* chunks(root, Some(s..e)) returns, in that order, the leaf chunks whose
\* bytes meet [s, e) and no other; after the first None every call returns None.
ChunksYieldLeavesInRange ==
    (iter.range.some => AllLeavesNonEmpty(tree)) =>
        /\ IsPrefix(iterRet.out, ExpectedChunks)
        /\ (iterRet.op = "next" /\ ~iterRet.ret.some) => iterRet.out = ExpectedChunks
        /\ iterRet.nones >= 1 => ~iterRet.ret.some

-----------------------------------------------------------------------------
(* Character iteration over a tree with an empty leaf chunk                 *)

\* C29: an empty leaf chunk does not cut iteration short: over a tree whose
\* leaves include an empty chunk, a new unrestricted iterator has returned
\* every char of the text when next() first returns None.
EmptyLeafKeepsIteration ==
    (/\ ~iter.range.some /\ iterRet.fresh
     /\ ~AllLeavesNonEmpty(tree)
     /\ iterRet.op = "next" /\ ~iterRet.ret.some) =>
        iterRet.out = Doc(tree)

-----------------------------------------------------------------------------
(* collect_string (rope/iterator.rs)                                        *)

\* The for loop over self.enumerate(): each pass takes (i, ch) from next()
\* and only then compares i with the limit.  limit is None for usize::MAX.
\* [it, ret]
RECURSIVE CollectLoop(_, _, _, _)
CollectLoop(it, i, limit, result) ==
    LET r == IteratorNext(it)
    IN  IF ~r.ret.some THEN [it |-> it, ret |-> result]
        ELSE IF limit.some /\ i >= limit.val THEN [it |-> r.it, ret |-> result]
        ELSE CollectLoop(r.it, i + 1, limit, Append(result, r.ret.val))

CollectString(it, max_chars) == CollectLoop(it, 0, max_chars, <<>>)

MaxCollect == 3        \* the largest max_chars given to collect_string

\* iterRet: the last call and its result, the chars next() returned before
\* collect_string (out), the limit given and the string returned (got).
CollectInit ==
    /\ \E root \in BackTrees :
         /\ tree = root
         /\ iter = IterNew(root, None)
    /\ iterRet = [op |-> "new", ret |-> None, out |-> <<>>, limit |-> None, got |-> <<>>]
    /\ BufIdle /\ PieceIdle /\ NodeIdle /\ ChunkIdle /\ EncIdle
    /\ LineIdle /\ MetricIdle

CollectNextBefore ==
    /\ iterRet.op \in {"new", "next"}
    /\ LET r == IteratorNext(iter)
       IN  /\ r.ret.some
           /\ iter' = r.it
           /\ iterRet' = [iterRet EXCEPT !.op = "next", !.ret = r.ret,
                                         !.out = Append(@, r.ret.val)]
    /\ UNCHANGED <<tree, bufVars, pieceVars, nodeVars, chunkVars, encVars, lineVars, metricVars>>

DoCollectString ==
    /\ iterRet.op \in {"new", "next"}
    /\ \E max_chars \in {None} \cup { Some(n) : n \in 0..MaxCollect } :
         LET r == CollectString(iter, max_chars)
         IN  /\ iter' = r.it
             /\ iterRet' = [iterRet EXCEPT !.op = "collect_string", !.ret = None,
                                           !.limit = max_chars, !.got = r.ret]
    /\ UNCHANGED <<tree, bufVars, pieceVars, nodeVars, chunkVars, encVars, lineVars, metricVars>>

CollectNextAfter ==
    /\ iterRet.op = "collect_string"
    /\ LET r == IteratorNext(iter)
       IN  /\ iter' = r.it
           /\ iterRet' = [iterRet EXCEPT !.op = "next_after", !.ret = r.ret]
    /\ UNCHANGED <<tree, bufVars, pieceVars, nodeVars, chunkVars, encVars, lineVars, metricVars>>

CollectNext == CollectNextBefore \/ DoCollectString \/ CollectNextAfter

SpecCollect == CollectInit /\ [][CollectNext]_vars

\* C30: collect_string(Some(n)) on a forward iterator returns the next
\* min(n, remaining) chars and consumes those only: the next() right after it
\* returns the char that follows the returned string in the text.
CollectConsumesWhatItReturns ==
    (iterRet.op \in {"collect_string", "next_after"} /\ iterRet.limit.some) =>
        LET doc == Doc(tree)
            from == Len(iterRet.out)
            count == Min(iterRet.limit.val, Len(doc) - from)
        IN  /\ iterRet.got = SubSeq(doc, from + 1, from + count)
            /\ iterRet.op = "next_after" =>
                  iterRet.ret = IF from + count < Len(doc)
                                THEN Some(doc[from + count + 1]) ELSE None

============================================================================
